---------------------------- MODULE Spec2Model ----------------------------
(***************************************************************************)
(* CV scoring service: the language-model gateway with per-model retries   *)
(* (app/services/gemini_service.py) and the section scorer / report        *)
(* aggregator (app/api/endpoints/cv.py).                                   *)
(*                                                                         *)
(* Texts are sequences of one-character strings; a JSON object literal is  *)
(* a single token (it begins with "{" and ends with "}", so no strip of    *)
(* the gateway ever cuts into it).  Scores are exact decimals counted in   *)
(* units of 1/10000 point.                                                 *)
(***************************************************************************)
EXTENDS Integers, Sequences, FiniteSets, TLC

VARIABLES
    models,        \* GEMINI_MODELS: the priority-ordered model identifiers
    max_retries,   \* the max_retries argument of the gateway calls
    gw,            \* per coroutine: the frame of its call_gemini_with_fallback
    trace,         \* per coroutine: history of the attempts and sleeps of that call
    running,       \* the coroutine the event loop is executing (0: none)
    mode,          \* which entry point drives the behaviour ("gateway", "score")
    segments,      \* the argument of score_segments
    req,           \* position of score_segments: idle, gathering, done, error
    ready,         \* section tasks created by gather and not started yet (FIFO)
    tpc,           \* per section task: position inside process_section
    locals,        \* per section task: the local variables of process_section
    results,       \* per section task: the SectionReport it returned
    done_order,    \* the section tasks in the order they completed
    report,        \* what score_segments returned or raised
    calls,         \* per section task: calls made to the external collaborators
    model_cache,   \* the module-level model_cache dict
    files_present, \* which artifact files exist on disk
    now,           \* time.time()
    load_log,      \* history of the load_models calls
    oracle,        \* the answers of the regressor and of the remote model, when fixed
    run,           \* how many times score_segments was called on the segments
    first_report,  \* what the first of two score_segments calls returned
    rpc,           \* per scoring request sharing the model cache: its position
    upload,        \* the file of an upload request: endpoint, filename, content
    upc,           \* position of the upload endpoint handling it
    response,      \* the HTTP response of the upload endpoint
    effects,       \* the collaborators the upload request has invoked
    date_str,      \* the argument of parse_date
    parsed,        \* what parse_date returned
    doc,           \* a call of a helper of process_document: its argument and result
    limiter,       \* request_history, every admitted request, the last request
    outbound       \* gateway calls of segment_cv_gemini, and generate_content calls

gwvars == <<models, max_retries, gw, trace, running, mode>>

scorevars == <<segments, req, ready, tpc, locals, results, done_order, report,
               calls, model_cache, files_present, now>>

auxvars == <<load_log, oracle, run, first_report, rpc, upload, upc, response,
             effects, date_str, parsed, doc, limiter,
                   outbound>>

vars == <<models, max_retries, gw, trace, running, mode, segments, req, ready,
          tpc, locals, results, done_order, report, calls, model_cache,
          files_present, now, load_log, oracle, run, first_report, rpc, upload,
          upc, response, effects, date_str, parsed, doc, limiter,
                   outbound>>

-----------------------------------------------------------------------------
(* Bounds *)

MaxModels == 2
MaxRetries == 3
MaxSegs == 2
MaxRequests == 2
MaxLoads == 2
MaxHours == 1
MaxLines == 3
MaxSections == 6
MaxOther == 1

TaskIds == 1..MaxSegs

-----------------------------------------------------------------------------
(* Configuration *)

GEMINI_MODELS == <<"gemini-2.0-flash-lite">>

DEFAULT_MAX_RETRIES == 3

\* Identifiers a deployment may configure, in priority order: the shipped one
\* followed by the list of the stand-alone script.
ModelCatalogue ==
    GEMINI_MODELS \o <<"gemini-1.5-pro-latest", "gemini-1.5-pro",
                       "gemini-1.5-flash-latest", "gemini-1.5-flash", "gemini-pro">>

ModelLists == { SubSeq(ModelCatalogue, 1, k) : k \in 0..MaxModels }

-----------------------------------------------------------------------------
(* Text helpers *)

\* str.strip(chars): drop from both ends every character that is in chars.
PyStrip(s, chars) ==
    LET keep  == { i \in 1..Len(s) : s[i] \notin chars }
        first == IF keep = {} THEN Len(s) + 1
                 ELSE CHOOSE i \in keep : \A j \in keep : i <= j
        last  == IF keep = {} THEN 0
                 ELSE CHOOSE i \in keep : \A j \in keep : j <= i
    IN  SubSeq(s, first, last)

\* BQ stands for the backquote character.
BQ == "bq"
NL == "\n"

FenceChars1 == {BQ, "j", "s", "o", "n", NL}
FenceChars2 == {BQ}

StripFence_identity(text) == text

\* response.text.strip(<bq bq bq json newline>).strip(<bq bq bq>)
StripFence(text) == PyStrip(PyStrip(text, FenceChars1), FenceChars2)

-----------------------------------------------------------------------------
(* Language-model gateway: call_gemini_with_fallback *)

NoError == "None"
EmptyResponseError == "Empty response from Gemini API"
RemoteErrors == {"503 unavailable"}

NoText == <<>>

IdleFrame ==
    [pc |-> "idle", mi |-> 0, attempt |-> 0, last_error |-> NoError,
     result |-> NoText, error |-> NoError, retries |-> 0]

\* if last_error: raise Exception(...); else the function falls off its end
\* and returns None.
LoopExit(f) ==
    IF f.last_error # NoError
    THEN [f EXCEPT !.pc = "raised", !.error = f.last_error, !.retries = max_retries]
    ELSE [f EXCEPT !.pc = "returned_none"]

\* Entry of the call: last_error = None, then the two for-loops start.
EnterCall ==
    LET f == [IdleFrame EXCEPT !.pc = "try", !.mi = 1, !.attempt = 0]
    IN  IF Len(models) = 0 \/ max_retries = 0 THEN LoopExit(IdleFrame) ELSE f

ShouldSleep_always(attempt) == attempt < max_retries

\* if attempt < max_retries - 1: await asyncio.sleep(1)
ShouldSleep(attempt) == attempt < max_retries - 1

NextPosition_one_more(f) ==
    IF f.attempt + 1 <= max_retries
    THEN [f EXCEPT !.pc = "try", !.attempt = f.attempt + 1]
    ELSE IF f.mi < Len(models)
         THEN [f EXCEPT !.pc = "try", !.mi = f.mi + 1, !.attempt = 0]
         ELSE LoopExit(f)

\* The loop position after the attempt (mi, attempt) failed and any sleep is over.
NextPosition(f) ==
    IF f.attempt + 1 < max_retries
    THEN [f EXCEPT !.pc = "try", !.attempt = f.attempt + 1]
    ELSE IF f.mi < Len(models)
         THEN [f EXCEPT !.pc = "try", !.mi = f.mi + 1, !.attempt = 0]
         ELSE LoopExit(f)

AfterSuccess_keep_going(f, text) ==
    NextPosition([f EXCEPT !.pc = "try", !.result = StripFence(text)])

\* return response.text.strip(...).strip(...)
AfterSuccess(f, text) ==
    [f EXCEPT !.pc = "returned", !.result = StripFence(text)]

\* except Exception as e: last_error = e; ...; continue
AfterFailure(f, err) ==
    LET g == [f EXCEPT !.last_error = err]
    IN  IF ShouldSleep(f.attempt) THEN [g EXCEPT !.pc = "sleep"] ELSE NextPosition(g)

Event(kind, f, text, err) ==
    [ev |-> kind, mi |-> f.mi, attempt |-> f.attempt, text |-> text, err |-> err]

\* What one attempt appends to the history: the attempt, and the sleep that
\* follows it when the frame went to sleep.
Logged(f, g, ok, text, err) ==
    <<Event(IF ok THEN "ok" ELSE "fail", f, text, err)>>
    \o (IF g.pc = "sleep" THEN <<Event("sleep", f, NoText, NoError)>> ELSE <<>>)

-----------------------------------------------------------------------------
(* JSON texts and what json.loads makes of them *)

\* Object literals the remote model may put in a list of grammar errors: the
\* "type" member of each (NoType: the object has no such member), the
\* object of a suggestion, and a list entry that is a string, not an object.
ErrGrammar == "{type:grammar}"
ErrGrammarCap == "{type:Grammar}"
ErrVocabularyUp == "{type:VOCABULARY}"
ErrSyntaxCap == "{type:Syntax}"
ErrStyle == "{type:style}"
ErrNoType == "{location:3}"
ErrString == "\"typo\""
SuggestionObj == "{issue,suggestion}"

ObjectTokens ==
    {ErrGrammar, ErrGrammarCap, ErrVocabularyUp, ErrSyntaxCap, ErrStyle,
     ErrNoType, ErrString, SuggestionObj}

NoType == "<no type>"

\* e["type"] for the object e; a KeyError when the member is absent.
TypeOf(e) ==
    CASE e = ErrGrammar      -> "grammar"
      [] e = ErrGrammarCap   -> "Grammar"
      [] e = ErrVocabularyUp -> "VOCABULARY"
      [] e = ErrSyntaxCap    -> "Syntax"
      [] e = ErrStyle        -> "style"
      [] OTHER               -> NoType

\* str.lower() on the type names above.
Lower(str) ==
    CASE str = "Grammar"    -> "grammar"
      [] str = "VOCABULARY" -> "vocabulary"
      [] str = "Syntax"     -> "syntax"
      [] OTHER              -> str

Whitespace == {" ", NL}

JsonList(items) == [kind |-> "list", items |-> items]
JsonNumber == [kind |-> "number", items |-> <<>>]
JsonInvalid == [kind |-> "invalid", items |-> <<>>]

\* The elements of the text between "[" and "]": objects separated by commas.
IsElements(inner) ==
    \/ inner = <<>>
    \/ /\ Len(inner) % 2 = 1
       /\ \A i \in 1..Len(inner) :
             IF i % 2 = 1 THEN inner[i] \in ObjectTokens ELSE inner[i] = ","

Elements(inner) == SelectSeq(inner, LAMBDA c : c # ",")

\* json.loads(text): a list of objects, a number, or a JSONDecodeError.
JsonLoads(text) ==
    LET b == PyStrip(text, Whitespace)
    IN  IF Len(b) >= 2 /\ b[1] = "[" /\ b[Len(b)] = "]"
           /\ IsElements(SubSeq(b, 2, Len(b) - 1))
        THEN JsonList(Elements(SubSeq(b, 2, Len(b) - 1)))
        ELSE IF b = <<"7">> THEN JsonNumber ELSE JsonInvalid

-----------------------------------------------------------------------------
(* The remote model: what it may answer to each prompt *)

Fenced(text) == <<BQ, BQ, BQ, "j", "s", "o", "n", NL>> \o text \o <<NL, BQ, BQ, BQ>>

Prose == <<"S", "o", "r", "r", "y">>

\* Texts the remote model may answer to the bare gateway call.
HarnessReplies ==
    { <<>>, <<"[", "]">>, Fenced(<<"[", "]">>), <<"n", "u", "l", "l">> }

\* Section texts: two blank ones, a short one and a longer one.
BlankTexts == { <<>>, <<" ">> }
PlainText == <<"a">>
RichText == <<"a", " ", "b">>

GrammarReplies(text) ==
    IF text = RichText
    THEN { <<>>,
           <<"[", "]">>,
           Fenced(<<"[", ErrGrammar, "]">>),
           <<"[", ErrGrammarCap, ",", ErrVocabularyUp, ",", ErrSyntaxCap, ",",
             ErrStyle, "]">>,
           <<"[", ErrNoType, "]">>,
           <<"[", ErrString, "]">>,
           <<"7">>,
           Prose }
    ELSE { <<"[", ErrGrammar, "]">> }

SuggestionReplies(text) ==
    IF text = RichText
    THEN { <<>>,
           <<"[", SuggestionObj, "]">>,
           <<"[", SuggestionObj, ",", SuggestionObj, ",", SuggestionObj, ",",
             SuggestionObj, "]">>,
           <<"7">>,
           Prose }
    ELSE { <<"[", SuggestionObj, "]">> }

\* The segments the remote model may cut a CV into, each with the token that
\* stands for its object literal in the reply.
SegmentTable ==
    << [token |-> "{section:Skills,text:a b}",
        segment |-> [section |-> "Skills", text |-> RichText]],
       [token |-> "{section:Skills,text:a}",
        segment |-> [section |-> "Skills", text |-> PlainText]],
       [token |-> "{section:Skills,text:}",
        segment |-> [section |-> "Skills", text |-> <<>>]],
       [token |-> "{section:References,text:a}",
        segment |-> [section |-> "References", text |-> PlainText]] >>

\* The segment lists of the replies: any single segment, and lists of short
\* Skills segments.
SegmentLists ==
    { <<i>> : i \in 1..Len(SegmentTable) }
    \cup UNION { [1..n -> {2}] : n \in 0..MaxSegs }

\* The JSON object {"name_cv": ..., "segments": [...]} as a text.
SegmentsText(list) ==
    <<"{", "segments", ":", "[">>
    \o [k \in 1..(2 * Len(list) - 1) |->
           IF k % 2 = 1 THEN SegmentTable[list[(k + 1) \div 2]].token ELSE ","]
    \o <<"]", "}">>

\* Texts the remote model may answer to the segmentation prompt: the
\* object, fenced or not, an object without "segments", prose, nothing.
SegmentReplies ==
    { SegmentsText(list) : list \in SegmentLists }
    \cup { Fenced(SegmentsText(<<2>>)), <<"{", "}">>, Prose, <<>> }

\* json.loads of the segmentation reply and its "segments" member: the list
\* of segments, a KeyError for an object without the member, or a
\* JSONDecodeError.
SegmentsOf(text) ==
    LET b == PyStrip(text, Whitespace)
        inner == SubSeq(b, 5, Len(b) - 2)
        tokens == { SegmentTable[i].token : i \in 1..Len(SegmentTable) }
        Decode(token) ==
            SegmentTable[CHOOSE i \in 1..Len(SegmentTable) :
                             SegmentTable[i].token = token].segment
        wellformed ==
            /\ Len(b) >= 6
            /\ SubSeq(b, 1, 4) = <<"{", "segments", ":", "[">>
            /\ SubSeq(b, Len(b) - 1, Len(b)) = <<"]", "}">>
            /\ \/ inner = <<>>
               \/ /\ Len(inner) % 2 = 1
                  /\ \A k \in 1..Len(inner) :
                        IF k % 2 = 1 THEN inner[k] \in tokens ELSE inner[k] = ","
    IN  IF wellformed
        THEN [kind |-> "segments",
              segments |-> [k \in 1..((Len(inner) + 1) \div 2) |->
                               Decode(inner[2 * k - 1])]]
        ELSE IF b = <<"{", "}">> THEN [kind |-> "KeyError", segments |-> <<>>]
        ELSE [kind |-> "JSONDecodeError", segments |-> <<>>]

\* Raw predictions of the regressor, in 1/10000: below 0, tiny, 2/3, just
\* under 3/4, above 1.
Predictions(text) ==
    IF text = RichText THEN {0 - 2000, 2, 6667, 7498, 13000} ELSE {5000}

\* The answers of the collaborators are free, or fixed per prompt.
FreeOracle == [fixed |-> FALSE, answers |-> <<>>]

\* The fixed answer to the prompt coroutine t is sending.
Answer(t) ==
    IF tpc[t] = "grammar" THEN oracle.answers[segments[t]].grammar
    ELSE oracle.answers[segments[t]].suggest

Replies(t) ==
    IF mode = "gateway" THEN HarnessReplies
    ELSE IF mode = "request" THEN SegmentReplies
    ELSE IF oracle.fixed THEN (IF Answer(t).ok THEN {Answer(t).text} ELSE {})
    ELSE IF tpc[t] = "grammar" THEN GrammarReplies(segments[t].text)
    ELSE SuggestionReplies(segments[t].text)

\* The exceptions generate_content may throw at coroutine t.
Errors(t) ==
    IF mode # "gateway" /\ oracle.fixed
    THEN (IF Answer(t).ok THEN {} ELSE RemoteErrors)
    ELSE RemoteErrors

\* What the regressor does with the features of segment t.
PredictMayThrow(t) ==
    oracle.fixed => ~oracle.answers[segments[t]].predict_ok

PredictionsOf(t) ==
    IF ~oracle.fixed THEN Predictions(segments[t].text)
    ELSE IF oracle.answers[segments[t]].predict_ok
         THEN {oracle.answers[segments[t]].raw}
         ELSE {}

\* Whether reading the artifact files may throw.
LoadOutcomes == IF oracle.fixed THEN {TRUE} ELSE BOOLEAN

\* Coroutine t enters the body of the inner loop and sends its request:
\* model.generate_content(...) is a plain (not awaited) call, so the
\* coroutine keeps the event loop until the reply is there.
GatewayRequest(t) ==
    /\ running = t
    /\ gw[t].pc = "try"
    /\ gw' = [gw EXCEPT ![t].pc = "calling"]
    /\ UNCHANGED <<models, max_retries, trace, running, mode>>
    /\ UNCHANGED scorevars
    /\ UNCHANGED auxvars

\* The rest of the pass through the body of the inner loop for coroutine t:
\* the reply of generate_content and what follows it up to the next
\* suspension.
GatewayAttempt(t) ==
    /\ running = t
    /\ gw[t].pc = "calling"
    /\ \/ \E text \in Replies(t) :
            LET ok == text # <<>>
                g  == IF ok THEN AfterSuccess(gw[t], text)
                      ELSE AfterFailure(gw[t], EmptyResponseError)
            IN  /\ gw' = [gw EXCEPT ![t] = g]
                /\ trace' = [trace EXCEPT ![t] = @ \o Logged(gw[t], g, ok, text,
                                  IF ok THEN NoError ELSE EmptyResponseError)]
                /\ running' = IF g.pc = "sleep" THEN 0 ELSE t
       \/ \E err \in Errors(t) :
            LET g == AfterFailure(gw[t], err)
            IN  /\ gw' = [gw EXCEPT ![t] = g]
                /\ trace' = [trace EXCEPT ![t] = @ \o Logged(gw[t], g, FALSE, NoText, err)]
                /\ running' = IF g.pc = "sleep" THEN 0 ELSE t
    /\ outbound' = [outbound EXCEPT !.attempts = @ + 1]
    /\ UNCHANGED <<models, max_retries, mode>>
    /\ UNCHANGED scorevars
    /\ UNCHANGED <<load_log, oracle, run, first_report, rpc, upload, upc, response,
                   effects, date_str, parsed, doc, limiter>>

\* The event loop resumes a coroutine whose asyncio.sleep(1) is over; tasks
\* that gather created and that have not started yet run before any timer.
GatewayWake(t) ==
    /\ running = 0
    /\ ready = <<>>
    /\ gw[t].pc = "sleep"
    /\ gw' = [gw EXCEPT ![t] = NextPosition(@)]
    /\ running' = t
    /\ UNCHANGED <<models, max_retries, trace, mode>>
    /\ UNCHANGED scorevars
    /\ UNCHANGED auxvars

-----------------------------------------------------------------------------
(* Scoring configuration and the model cache *)

max_scores ==
    ("Personal Info" :> 10) @@ ("Summary" :> 10) @@ ("Skills" :> 15)
    @@ ("Work Experience" :> 20) @@ ("Education" :> 10) @@ ("Projects" :> 15)
    @@ ("Certifications" :> 5) @@ ("Languages" :> 5)
    @@ ("Organizational & Volunteering" :> 5) @@ ("Awards" :> 5)
    @@ ("Hobbies & Interests" :> 0)

RECURSIVE SumPositive(_, _)
SumPositive(f, S) ==
    IF S = {} THEN 0
    ELSE LET x == CHOOSE y \in S : TRUE
         IN  (IF f[x] > 0 THEN f[x] ELSE 0) + SumPositive(f, S \ {x})

\* sum(score for score in max_scores.values() if score > 0)
total_max_score == SumPositive(max_scores, DOMAIN max_scores)

\* One point, in the unit the scores are counted in.
Point == 100 * 100

CACHE_SECONDS == 3600

ModelFiles == {"xgb_model", "vectorizer", "section_encoder"}

NoneTime == 0 - 1

EmptyCache == [model |-> "None", last_loaded |-> NoneTime]

CacheValid_inclusive(cache, current_time) ==
    /\ cache.model # "None"
    /\ cache.last_loaded # NoneTime
    /\ current_time - cache.last_loaded <= CACHE_SECONDS

\* The condition on which load_models returns the cached artifacts.
CacheValid(cache, current_time) ==
    /\ cache.model # "None"
    /\ cache.last_loaded # NoneTime
    /\ current_time - cache.last_loaded < CACHE_SECONDS

LoadModels_unstamped(cache, current_time, files, load_ok) ==
    IF CacheValid(cache, current_time)
    THEN [ok |-> TRUE, cache |-> cache, detail |-> "", disk |-> "untouched"]
    ELSE IF files # ModelFiles
    THEN [ok |-> FALSE, cache |-> cache, detail |-> "Model files not found",
          disk |-> "checked"]
    ELSE IF ~load_ok
    THEN [ok |-> FALSE, cache |-> cache, detail |-> "Failed to load models",
          disk |-> "read"]
    ELSE [ok |-> TRUE, detail |-> "", disk |-> "read",
          cache |-> [model |-> "artifacts", last_loaded |-> cache.last_loaded]]

LoadModels_files_first(cache, current_time, files, load_ok) ==
    IF files # ModelFiles
    THEN [ok |-> FALSE, cache |-> cache, detail |-> "Model files not found",
          disk |-> "checked"]
    ELSE IF CacheValid(cache, current_time)
    THEN [ok |-> TRUE, cache |-> cache, detail |-> "", disk |-> "untouched"]
    ELSE IF ~load_ok
    THEN [ok |-> FALSE, cache |-> cache, detail |-> "Failed to load models",
          disk |-> "read"]
    ELSE [ok |-> TRUE, detail |-> "", disk |-> "read",
          cache |-> [model |-> "artifacts", last_loaded |-> current_time]]

\* load_models(): the cached artifacts while they are younger than an hour,
\* else a 500 when a file is missing or the load throws, else a fresh load
\* stamped with the current time.  disk tells what the call did with the
\* artifact files: nothing, only os.path.exists, or reading them.
LoadModels(cache, current_time, files, load_ok) ==
    IF CacheValid(cache, current_time)
    THEN [ok |-> TRUE, cache |-> cache, detail |-> "", disk |-> "untouched"]
    ELSE IF files # ModelFiles
    THEN [ok |-> FALSE, cache |-> cache, detail |-> "Model files not found",
          disk |-> "checked"]
    ELSE IF ~load_ok
    THEN [ok |-> FALSE, cache |-> cache, detail |-> "Failed to load models",
          disk |-> "read"]
    ELSE [ok |-> TRUE, detail |-> "", disk |-> "read",
          cache |-> [model |-> "artifacts", last_loaded |-> current_time]]

\* One load_models call as kept in the history: when it ran, the cache it
\* found, whether the three files were all there, and what it did.
LoadEvent(cache, r) ==
    [time |-> now, before |-> cache, complete |-> (files_present = ModelFiles),
     ok |-> r.ok, detail |-> r.detail, disk |-> r.disk, after |-> r.cache]

\* The history keeps the most recent calls.
Remember(log, e) ==
    IF Len(log) < MaxLoads THEN Append(log, e) ELSE Append(Tail(log), e)

-----------------------------------------------------------------------------
(* Section scorer: the arithmetic of process_section *)

Max(a, b) == IF a >= b THEN a ELSE b
Min(a, b) == IF a <= b THEN a ELSE b

\* round(x, 2) for x in 1/10000: the nearest multiple of 1/100, ties to even.
Round2(x) ==
    LET q == x \div 100
        r == x % 100
    IN  IF r < 50 THEN q * 100
        ELSE IF r > 50 THEN (q + 1) * 100
        ELSE IF q % 2 = 0 THEN q * 100 ELSE (q + 1) * 100

\* min(max(0, float(normalized_score)), 1.0)
ClampScore(raw) == Min(Max(0, raw), Point)

\* content_score = normalized_score * max_scores[section]
ContentScore(normalized, section) == normalized * max_scores[section]

IsMinor_case_sensitive(e) == TypeOf(e) \in {"grammar", "vocabulary"}

\* e["type"].lower() in ["grammar", "vocabulary"]
IsMinor(e) == Lower(TypeOf(e)) \in {"grammar", "vocabulary"}

\* e["type"].lower() == "syntax"
IsSevere(e) == Lower(TypeOf(e)) = "syntax"

CountMinor(errors) == Len(SelectSeq(errors, IsMinor))
CountSevere(errors) == Len(SelectSeq(errors, IsSevere))

MINOR_PENALTY == 2000
SEVERE_PENALTY == 5000

\* penalty = (minor * 0.2) + (severe * 0.5)
Penalty(minor, severe) == minor * MINOR_PENALTY + severe * SEVERE_PENALTY

FinalScore_unfloored(content, penalty) == content - penalty

\* final_score = max(0, content_score - penalty)
FinalScore(content, penalty) == Max(0, content - penalty)

GOOD_SHARE == 7500

Quality_of_rounded(final, section) ==
    IF Round2(final) >= max_scores[section] * GOOD_SHARE THEN "Good"
    ELSE IF Round2(final) > 0 THEN "Weak"
    ELSE "Missing"

\* "Good" if final_score >= max_scores[section] * 0.75 else "Weak" if
\* final_score > 0 else "Missing"
Quality(final, section) ==
    IF final >= max_scores[section] * GOOD_SHARE THEN "Good"
    ELSE IF final > 0 THEN "Weak"
    ELSE "Missing"

InvalidSectionReport_scored(section) ==
    [section |-> section, content_score |-> 0, final_score |-> 0,
     grammar_errors |-> [minor |-> 0, severe |-> 0],
     grammar_errors_detailed |-> <<>>, suggestions |-> JsonList(<<>>),
     quality |-> "Weak"]

\* The report of a section that is not a key of max_scores.
InvalidSectionReport(section) ==
    [section |-> section, content_score |-> 0, final_score |-> 0,
     grammar_errors |-> [minor |-> 0, severe |-> 0],
     grammar_errors_detailed |-> <<>>, suggestions |-> JsonList(<<>>),
     quality |-> "Missing"]

NoLocals ==
    [raw |-> 0, normalized_score |-> 0, content_score |-> 0, errors |-> <<>>,
     minor |-> 0, severe |-> 0, penalty |-> 0, final_score |-> 0,
     quality |-> "", exception |-> "",
     grammar_call |-> "", grammar_text |-> NoText,
     suggest_call |-> "", suggest_text |-> NoText]

\* The locals after the prediction: normalized_score and content_score.
Predicted(section, raw) ==
    [NoLocals EXCEPT !.raw = raw,
                     !.normalized_score = ClampScore(raw),
                     !.content_score = ContentScore(ClampScore(raw), section)]

\* How the gateway call behind a helper ended: history kept with the locals.
GrammarCall(L, f) == [L EXCEPT !.grammar_call = f.pc, !.grammar_text = f.result]
SuggestCall(L, f) == [L EXCEPT !.suggest_call = f.pc, !.suggest_text = f.result]

\* The locals after the grammar errors were counted.
Counted(L, errors) ==
    [L EXCEPT !.errors = errors,
              !.minor = CountMinor(errors),
              !.severe = CountSevere(errors),
              !.penalty = Penalty(CountMinor(errors), CountSevere(errors))]

\* The locals after final_score and quality were computed.
Finalised(L, section) ==
    [L EXCEPT !.final_score = FinalScore(L.content_score, L.penalty),
              !.quality = Quality(FinalScore(L.content_score, L.penalty), section)]

SectionReport_clocked(section, L, suggestions) ==
    [section |-> section,
     content_score |-> Round2(L.content_score),
     final_score |-> Round2(L.final_score),
     grammar_errors |-> [minor |-> L.minor, severe |-> L.severe],
     grammar_errors_detailed |-> L.errors,
     suggestions |-> suggestions,
     quality |-> IF now < CACHE_SECONDS THEN L.quality ELSE "Late"]

\* The dict process_section returns for a recognised section.
SectionReport(section, L, suggestions) ==
    [section |-> section,
     content_score |-> Round2(L.content_score),
     final_score |-> Round2(L.final_score),
     grammar_errors |-> [minor |-> L.minor, severe |-> L.severe],
     grammar_errors_detailed |-> L.errors,
     suggestions |-> suggestions,
     quality |-> L.quality]

JsonNone == [kind |-> "none", items |-> <<>>]

CheckGrammarResult_none_on_failure(f) ==
    IF f.pc = "returned" /\ JsonLoads(f.result).kind # "invalid"
    THEN JsonLoads(f.result)
    ELSE JsonNone

\* check_grammar_gemini after its gateway call ended with frame f: the parsed
\* reply; [] for a reply that is not JSON, for a gateway failure and for
\* any other exception (json.loads of None).
CheckGrammarResult(f) ==
    IF f.pc = "returned" /\ JsonLoads(f.result).kind # "invalid"
    THEN JsonLoads(f.result)
    ELSE JsonList(<<>>)

\* get_suggestions_gemini after its gateway call ended with frame f.
GetSuggestionsResult(f) ==
    IF f.pc = "returned" /\ JsonLoads(f.result).kind # "invalid"
    THEN JsonLoads(f.result)
    ELSE JsonList(<<>>)

\* Counting minor and severe errors raises: the value is no list (TypeError),
\* or the first entry e for which e["type"] fails is an object without that
\* member (KeyError) or a string (TypeError).
CountingRaises(v) ==
    LET bad == IF v.kind = "list"
               THEN { i \in 1..Len(v.items) : TypeOf(v.items[i]) = NoType }
               ELSE {}
        first == CHOOSE i \in bad : \A j \in bad : i <= j
    IN  IF v.kind # "list" THEN "TypeError"
        ELSE IF bad = {} THEN ""
        ELSE IF v.items[first] = ErrString THEN "TypeError"
        ELSE "KeyError"

\* not text.strip()
IsBlank(text) == PyStrip(text, Whitespace) = <<>>

NoCalls == [predict |-> 0, grammar |-> 0, suggest |-> 0, gateway |-> 0]

-----------------------------------------------------------------------------
(* Report aggregator: score_segments *)

\* sum(...) over a list of numbers
SumSeq_head_only(seq) == IF seq = <<>> THEN 0 ELSE Head(seq)

RECURSIVE SumSeq(_)
SumSeq(seq) == IF seq = <<>> THEN 0 ELSE Head(seq) + SumSeq(Tail(seq))

Gather_as_completed(res, order, n) == [i \in 1..n |-> res[order[i]]]

\* asyncio.gather(*tasks): the results in the order of the tasks.
Gather(res, order, n) == [i \in 1..n |-> res[i]]

DefaultCvId == "CV154-Cloud_Specialist"

NoReport ==
    [status |-> "none", cv_id |-> "", sections |-> <<>>,
     total_content_score |-> 0, total_final_score |-> 0,
     content_score_100 |-> 0, final_score_100 |-> 0,
     total_grammar_errors |-> 0, detail |-> ""]

FailureReport_partial(detail) ==
    [NoReport EXCEPT !.status = "ok",
                     !.sections = [i \in 1..Len(done_order) |-> results[done_order[i]]]]

\* raise HTTPException(status_code=500, detail="Failed to score CV: ...")
FailureReport(detail) == [NoReport EXCEPT !.status = "500", !.detail = detail]

\* The report dict built from the gathered section reports.
CVReport(processed_sections) ==
    LET total_content_score ==
            SumSeq([i \in 1..Len(processed_sections) |->
                        processed_sections[i].content_score])
        total_final_score ==
            SumSeq([i \in 1..Len(processed_sections) |->
                        processed_sections[i].final_score])
    IN  [status |-> "ok",
         cv_id |-> DefaultCvId,
         sections |-> processed_sections,
         total_content_score |-> Round2(total_content_score),
         total_final_score |-> Round2(total_final_score),
         content_score_100 |->
             Round2((total_content_score * 100) \div total_max_score),
         final_score_100 |->
             Round2((total_final_score * 100) \div total_max_score),
         total_grammar_errors |->
             SumSeq([i \in 1..Len(processed_sections) |->
                         processed_sections[i].grammar_errors.minor
                         + processed_sections[i].grammar_errors.severe]),
         detail |-> ""]

\* score_segments up to its await: load the models, create one task per
\* segment.  A load failure becomes the 500 of the except clause.
ScoreSegments ==
    /\ mode = "score"
    /\ req = "idle"
    /\ running = 0
    /\ \E load_ok \in LoadOutcomes :
          LET r == LoadModels(model_cache, now, files_present, load_ok)
          IN  /\ model_cache' = r.cache
              /\ load_log' = Remember(load_log, LoadEvent(model_cache, r))
              /\ IF r.ok
                 THEN /\ req' = "gathering"
                      /\ ready' = [i \in 1..Len(segments) |-> i]
                      /\ tpc' = [t \in TaskIds |->
                                    IF t <= Len(segments) THEN "ready" ELSE "none"]
                      /\ report' = report
                 ELSE /\ req' = "error"
                      /\ report' = FailureReport("Failed to score CV")
                      /\ UNCHANGED <<ready, tpc>>
    /\ UNCHANGED <<segments, locals, results, done_order, calls, files_present, now>>
    /\ UNCHANGED gwvars
    /\ UNCHANGED <<oracle, run, first_report, rpc, upload, upc, response, effects,
                   date_str, parsed, doc, limiter,
                   outbound>>

\* Task t finishes with report r.
Complete(t, L, r) ==
    /\ locals' = [locals EXCEPT ![t] = L]
    /\ results' = [results EXCEPT ![t] = r]
    /\ done_order' = Append(done_order, t)
    /\ tpc' = [tpc EXCEPT ![t] = "done"]
    /\ running' = 0

\* process_section from its start to its first suspension: the membership
\* test, the prediction (the vectorizer, the encoder or the regressor may
\* throw), and the entry into check_grammar_gemini.  A blank text makes both
\* helpers return [] at once, so the task runs to its end.
ProcessSection(t) ==
    /\ mode = "score"
    /\ req = "gathering"
    /\ running = 0
    /\ ready # <<>> /\ t = Head(ready)
    /\ ready' = Tail(ready)
    /\ LET seg == segments[t]
       IN  IF seg.section \notin DOMAIN max_scores
           THEN /\ Complete(t, NoLocals, InvalidSectionReport(seg.section))
                /\ UNCHANGED <<gw, trace, calls>>
           ELSE \/ /\ PredictMayThrow(t)
                   /\ locals' = [locals EXCEPT ![t].exception = "PredictError"]
                   /\ tpc' = [tpc EXCEPT ![t] = "failed"]
                   /\ calls' = [calls EXCEPT ![t].predict = @ + 1]
                   /\ running' = 0
                   /\ UNCHANGED <<gw, trace, results, done_order>>
                \/ \E raw \in PredictionsOf(t) :
                  LET L == Predicted(seg.section, raw)
                  IN  IF IsBlank(seg.text)
                      THEN /\ Complete(t, Finalised(Counted(L, <<>>), seg.section),
                                       SectionReport(seg.section,
                                           Finalised(Counted(L, <<>>), seg.section),
                                           JsonList(<<>>)))
                           /\ calls' = [calls EXCEPT ![t].predict = @ + 1,
                                                     ![t].grammar = @ + 1,
                                                     ![t].suggest = @ + 1]
                           /\ UNCHANGED <<gw, trace>>
                      ELSE /\ locals' = [locals EXCEPT ![t] = L]
                           /\ calls' = [calls EXCEPT ![t].predict = @ + 1,
                                                     ![t].grammar = @ + 1,
                                                     ![t].gateway = @ + 1]
                           /\ gw' = [gw EXCEPT ![t] = EnterCall]
                           /\ trace' = [trace EXCEPT ![t] = <<>>]
                           /\ tpc' = [tpc EXCEPT ![t] = "grammar"]
                           /\ running' = t
                           /\ UNCHANGED <<results, done_order>>
    /\ UNCHANGED <<models, max_retries, mode, segments, req, report,
                   model_cache, files_present, now>>
    /\ UNCHANGED auxvars

\* process_section from the return of check_grammar_gemini to the entry into
\* get_suggestions_gemini: count the errors (which may raise) and compute the
\* penalty.
CheckGrammarReturn(t) ==
    /\ mode = "score"
    /\ running = t
    /\ tpc[t] = "grammar"
    /\ gw[t].pc \in {"returned", "returned_none", "raised"}
    /\ LET v == CheckGrammarResult(gw[t])
       IN  IF CountingRaises(v) # ""
           THEN /\ locals' = [locals EXCEPT
                               ![t] = [GrammarCall(@, gw[t]) EXCEPT
                                          !.exception = CountingRaises(v)]]
                /\ tpc' = [tpc EXCEPT ![t] = "failed"]
                /\ gw' = [gw EXCEPT ![t] = IdleFrame]
                /\ running' = 0
                /\ calls' = calls
           ELSE /\ locals' = [locals EXCEPT
                               ![t] = Counted(GrammarCall(@, gw[t]), v.items)]
                /\ tpc' = [tpc EXCEPT ![t] = "suggest"]
                /\ gw' = [gw EXCEPT ![t] = EnterCall]
                /\ running' = t
                /\ calls' = [calls EXCEPT ![t].suggest = @ + 1,
                                          ![t].gateway = @ + 1]
    /\ trace' = [trace EXCEPT ![t] = <<>>]
    /\ UNCHANGED <<models, max_retries, mode, segments, req, ready, results,
                   done_order, report, model_cache, files_present, now>>
    /\ UNCHANGED auxvars

\* process_section from the return of get_suggestions_gemini to its own
\* return: final_score, quality and the report dict.
GetSuggestionsReturn(t) ==
    /\ mode = "score"
    /\ running = t
    /\ tpc[t] = "suggest"
    /\ gw[t].pc \in {"returned", "returned_none", "raised"}
    /\ LET L == Finalised(SuggestCall(locals[t], gw[t]), segments[t].section)
       IN  Complete(t, L, SectionReport(segments[t].section, L,
                                        GetSuggestionsResult(gw[t])))
    /\ gw' = [gw EXCEPT ![t] = IdleFrame]
    /\ trace' = [trace EXCEPT ![t] = <<>>]
    /\ UNCHANGED <<models, max_retries, mode, segments, req, ready, report,
                   calls, model_cache, files_present, now>>
    /\ UNCHANGED auxvars

AllDone == \A t \in 1..Len(segments) : tpc[t] = "done"
SomeFailed == \E t \in 1..Len(segments) : tpc[t] = "failed"

\* score_segments after its await: gather hands over the section reports once
\* every task has returned, or re-raises the exception of a task, which the
\* except clause turns into the 500.
BuildReport ==
    /\ mode = "score"
    /\ req = "gathering"
    /\ running = 0
    /\ ready = <<>>
    /\ \/ /\ SomeFailed
          /\ req' = "error"
          /\ report' = FailureReport("Failed to score CV")
       \/ /\ AllDone
          /\ req' = "done"
          /\ report' = CVReport(Gather(results, done_order, Len(segments)))
    /\ UNCHANGED <<segments, ready, tpc, locals, results, done_order, calls,
                   model_cache, files_present, now>>
    /\ UNCHANGED gwvars
    /\ UNCHANGED auxvars

Segment(section, text) == [section |-> section, text |-> text]

\* The segment lists scored: any single segment, and lists of short segments.
RichSections == {"Skills", "Hobbies & Interests", "References"}
PlainSections == {"Skills", "References"}

RichSegments ==
    { Segment(s, x) : s \in RichSections, x \in BlankTexts \cup {PlainText, RichText} }
PlainSegments == { Segment(s, x) : s \in PlainSections, x \in {<<>>, PlainText} }

ScoreInputs ==
    { <<g>> : g \in RichSegments }
    \cup UNION { [1..n -> PlainSegments] : n \in 0..MaxSegs }

NoUpload == [endpoint |-> "", filename |-> <<>>, content |-> ""]
NoResponse == [status |-> 0, detail |-> "", body |-> ""]
NoDate == [kind |-> "none", y |-> 0, m |-> 0, d |-> 0]
NoDoc == [op |-> "", arg |-> <<>>, called |-> FALSE, result |-> <<>>]
\* Nothing sent yet: no gateway call by segment_cv_gemini, no call of
\* generate_content.
NoOutbound == [segment |-> 0, attempts |-> 0]

\* request.client.host of the requests.
Clients == {"10.0.0.1", "10.0.0.2"}

\* request_history with no entry, nothing admitted, no request handled.
NoLimiter ==
    [request_history |-> [c \in Clients |-> <<>>],
     admitted |-> [c \in Clients |-> <<>>],
     last |-> [client |-> "", now |-> 0, status_code |-> 0,
               before |-> [c \in Clients |-> <<>>]]]

\* Nothing but the component under study has run.
AuxIdle ==
    /\ load_log = <<>>
    /\ oracle = FreeOracle
    /\ run = 1
    /\ first_report = NoReport
    /\ rpc = <<>>
    /\ upload = NoUpload
    /\ upc = "idle"
    /\ response = NoResponse
    /\ effects = {}
    /\ date_str = <<>>
    /\ parsed = NoDate
    /\ doc = NoDoc
    /\ limiter = NoLimiter
    /\ outbound = NoOutbound

ScoreIdle ==
    /\ req = "idle"
    /\ ready = <<>>
    /\ tpc = [t \in TaskIds |-> "none"]
    /\ locals = [t \in TaskIds |-> NoLocals]
    /\ results = [t \in TaskIds |-> InvalidSectionReport("")]
    /\ done_order = <<>>
    /\ report = NoReport
    /\ calls = [t \in TaskIds |-> NoCalls]
    /\ model_cache = EmptyCache
    /\ now = 0
    /\ AuxIdle

\* The request arrives in a fresh process, or after an earlier request
\* loaded the artifacts at time 0, within the hour or one hour later.
ScoreInit ==
    /\ mode = "score"
    /\ models = GEMINI_MODELS
    /\ max_retries = DEFAULT_MAX_RETRIES
    /\ gw = [t \in TaskIds |-> IdleFrame]
    /\ trace = [t \in TaskIds |-> <<>>]
    /\ running = 0
    /\ segments \in ScoreInputs
    /\ files_present \in {ModelFiles, ModelFiles \ {"vectorizer"}}
    /\ req = "idle"
    /\ ready = <<>>
    /\ tpc = [t \in TaskIds |-> "none"]
    /\ locals = [t \in TaskIds |-> NoLocals]
    /\ results = [t \in TaskIds |-> InvalidSectionReport("")]
    /\ done_order = <<>>
    /\ report = NoReport
    /\ calls = [t \in TaskIds |-> NoCalls]
    /\ model_cache \in {EmptyCache, [model |-> "artifacts", last_loaded |-> 0]}
    /\ now \in {CACHE_SECONDS - 1, CACHE_SECONDS}
    /\ AuxIdle

ScoreNext ==
    \/ ScoreSegments
    \/ BuildReport
    \/ \E t \in TaskIds :
          \/ ProcessSection(t)
          \/ GatewayRequest(t)
          \/ GatewayAttempt(t)
          \/ GatewayWake(t)
          \/ CheckGrammarReturn(t)
          \/ GetSuggestionsReturn(t)

SpecScore == ScoreInit /\ [][ScoreNext]_vars

\* The event loop keeps running whatever is ready, and every remote call
\* returns or throws.
FairSpecScore == SpecScore /\ WF_vars(ScoreNext)

-----------------------------------------------------------------------------
(* The same segments scored twice with unchanged collaborators *)

\* What the remote model may answer to one prompt, every time it gets it: a
\* text (an empty one makes the gateway raise ValueError) or an exception.
GrammarAnswers(text) ==
    { [ok |-> TRUE, text |-> x] : x \in GrammarReplies(text) }
    \cup { [ok |-> FALSE, text |-> NoText] }

SuggestAnswers(text) ==
    { [ok |-> TRUE, text |-> x] : x \in SuggestionReplies(text) }
    \cup { [ok |-> FALSE, text |-> NoText] }

\* What the collaborators do with one segment: the regressor predicts raw or
\* throws, the remote model answers the two prompts.
Answers(seg) ==
    { [predict_ok |-> TRUE, raw |-> r, grammar |-> g, suggest |-> u] :
          r \in Predictions(seg.text), g \in GrammarAnswers(seg.text),
          u \in SuggestAnswers(seg.text) }
    \cup { [predict_ok |-> FALSE, raw |-> 0, grammar |-> [ok |-> FALSE, text |-> NoText],
            suggest |-> [ok |-> FALSE, text |-> NoText]] }

\* The segments of the list that reach the regressor.
Prompts(segs) ==
    { segs[i] : i \in { j \in 1..Len(segs) : segs[j].section \in DOMAIN max_scores } }

Oracles(segs) ==
    { [fixed |-> TRUE, answers |-> f] :
          f \in { h \in [Prompts(segs) -> UNION { Answers(x) : x \in Prompts(segs) }] :
                      \A x \in Prompts(segs) : h[x] \in Answers(x) } }

TwiceInputs ==
    { <<Segment("Skills", RichText)>> }
    \cup UNION { [1..n -> PlainSegments] : n \in 1..MaxSegs }

\* The caller scores the same segments again once the first call is over and
\* its tasks are gone, at once or after the model cache expired.
ScoreAgain ==
    /\ mode = "score"
    /\ oracle.fixed
    /\ run = 1
    /\ req \in {"done", "error"}
    /\ running = 0
    /\ \A t \in TaskIds : tpc[t] \in {"none", "done", "failed"}
    /\ run' = 2
    /\ first_report' = report
    /\ \E later \in {0, CACHE_SECONDS} : now' = now + later
    /\ req' = "idle"
    /\ ready' = <<>>
    /\ tpc' = [t \in TaskIds |-> "none"]
    /\ locals' = [t \in TaskIds |-> NoLocals]
    /\ results' = [t \in TaskIds |-> InvalidSectionReport("")]
    /\ done_order' = <<>>
    /\ report' = NoReport
    /\ calls' = [t \in TaskIds |-> NoCalls]
    /\ gw' = [t \in TaskIds |-> IdleFrame]
    /\ trace' = [t \in TaskIds |-> <<>>]
    /\ UNCHANGED <<models, max_retries, running, mode, segments, model_cache,
                   files_present, load_log, oracle, rpc, upload, upc, response,
                   effects, date_str, parsed, doc, limiter,
                   outbound>>

TwiceInit ==
    /\ mode = "score"
    /\ models = GEMINI_MODELS
    /\ max_retries = DEFAULT_MAX_RETRIES
    /\ gw = [t \in TaskIds |-> IdleFrame]
    /\ trace = [t \in TaskIds |-> <<>>]
    /\ running = 0
    /\ segments \in TwiceInputs
    /\ files_present = ModelFiles
    /\ req = "idle"
    /\ ready = <<>>
    /\ tpc = [t \in TaskIds |-> "none"]
    /\ locals = [t \in TaskIds |-> NoLocals]
    /\ results = [t \in TaskIds |-> InvalidSectionReport("")]
    /\ done_order = <<>>
    /\ report = NoReport
    /\ calls = [t \in TaskIds |-> NoCalls]
    /\ model_cache = EmptyCache
    /\ now = 0
    /\ load_log = <<>>
    /\ oracle \in Oracles(segments)
    /\ run = 1
    /\ first_report = NoReport
    /\ rpc = <<>>
    /\ upload = NoUpload
    /\ upc = "idle"
    /\ response = NoResponse
    /\ effects = {}
    /\ date_str = <<>>
    /\ parsed = NoDate
    /\ doc = NoDoc
    /\ limiter = NoLimiter
    /\ outbound = NoOutbound

TwiceNext ==
    \/ ScoreSegments
    \/ BuildReport
    \/ ScoreAgain
    \/ \E t \in TaskIds :
          \/ ProcessSection(t)
          \/ GatewayRequest(t)
          \/ GatewayAttempt(t)
          \/ GatewayWake(t)
          \/ CheckGrammarReturn(t)
          \/ GetSuggestionsReturn(t)

SpecTwice == TwiceInit /\ [][TwiceNext]_vars

-----------------------------------------------------------------------------
(* Scoring requests sharing the model cache over time *)

RequestIds == 1..MaxRequests

\* The instants at which something happens: around the full hours.
CacheTimes ==
    { h * CACHE_SECONDS + d : h \in 0..MaxHours, d \in {0 - 1, 0, 1} }
    \cap (0..(MaxHours * CACHE_SECONDS))

\* Request r enters score_segments: load_models runs from its cache check to
\* its return or raise without a suspension point, then the section tasks
\* are created and the request waits for them.
CacheRequest(r) ==
    /\ mode = "cache"
    /\ rpc[r] = "idle"
    /\ \E load_ok \in BOOLEAN :
          LET res == LoadModels(model_cache, now, files_present, load_ok)
          IN  /\ model_cache' = res.cache
              /\ load_log' = Remember(load_log, LoadEvent(model_cache, res))
              /\ rpc' = [rpc EXCEPT ![r] = IF res.ok THEN "gathering" ELSE "failed"]
    /\ UNCHANGED <<segments, req, ready, tpc, locals, results, done_order, report,
                   calls, files_present, now>>
    /\ UNCHANGED gwvars
    /\ UNCHANGED <<oracle, run, first_report, upload, upc, response, effects,
                   date_str, parsed, doc, limiter,
                   outbound>>

\* Request r is answered (with its report or with the 500).
CacheRequestEnd(r) ==
    /\ mode = "cache"
    /\ rpc[r] \in {"gathering", "failed"}
    /\ rpc' = [rpc EXCEPT ![r] = "idle"]
    /\ UNCHANGED scorevars
    /\ UNCHANGED gwvars
    /\ UNCHANGED <<load_log, oracle, run, first_report, upload, upc, response,
                   effects, date_str, parsed, doc, limiter,
                   outbound>>

\* Time passes.
Tick ==
    /\ mode = "cache"
    /\ \E later \in CacheTimes : later > now /\ now' = later
    /\ UNCHANGED <<segments, req, ready, tpc, locals, results, done_order, report,
                   calls, model_cache, files_present>>
    /\ UNCHANGED gwvars
    /\ UNCHANGED auxvars

\* An artifact file is deleted, or the deleted one is put back.
RemoveFile ==
    /\ mode = "cache"
    /\ files_present = ModelFiles
    /\ \E f \in ModelFiles : files_present' = ModelFiles \ {f}
    /\ UNCHANGED <<segments, req, ready, tpc, locals, results, done_order, report,
                   calls, model_cache, now>>
    /\ UNCHANGED gwvars
    /\ UNCHANGED auxvars

RestoreFile ==
    /\ mode = "cache"
    /\ files_present # ModelFiles
    /\ files_present' = ModelFiles
    /\ UNCHANGED <<segments, req, ready, tpc, locals, results, done_order, report,
                   calls, model_cache, now>>
    /\ UNCHANGED gwvars
    /\ UNCHANGED auxvars

CacheInit ==
    /\ mode = "cache"
    /\ models = GEMINI_MODELS
    /\ max_retries = DEFAULT_MAX_RETRIES
    /\ gw = [t \in TaskIds |-> IdleFrame]
    /\ trace = [t \in TaskIds |-> <<>>]
    /\ running = 0
    /\ segments = <<>>
    /\ files_present = ModelFiles
    /\ req = "idle"
    /\ ready = <<>>
    /\ tpc = [t \in TaskIds |-> "none"]
    /\ locals = [t \in TaskIds |-> NoLocals]
    /\ results = [t \in TaskIds |-> InvalidSectionReport("")]
    /\ done_order = <<>>
    /\ report = NoReport
    /\ calls = [t \in TaskIds |-> NoCalls]
    /\ model_cache = EmptyCache
    /\ now = 0
    /\ load_log = <<>>
    /\ oracle = FreeOracle
    /\ run = 1
    /\ first_report = NoReport
    /\ rpc = [r \in RequestIds |-> "idle"]
    /\ upload = NoUpload
    /\ upc = "idle"
    /\ response = NoResponse
    /\ effects = {}
    /\ date_str = <<>>
    /\ parsed = NoDate
    /\ doc = NoDoc
    /\ limiter = NoLimiter
    /\ outbound = NoOutbound

CacheNext ==
    \/ Tick
    \/ RemoveFile
    \/ RestoreFile
    \/ \E r \in RequestIds : CacheRequest(r) \/ CacheRequestEnd(r)

SpecCache == CacheInit /\ [][CacheNext]_vars

\* Requests keep coming and being answered while the bounds allow.
FairSpecCache == SpecCache /\ WF_vars(CacheNext)

-----------------------------------------------------------------------------
(* The upload endpoints: score_cv and process_document *)

restvars == <<load_log, oracle, run, first_report, rpc, doc, limiter,
                   outbound>>

\* The names a client may give the uploaded file, character by character.
Filenames ==
    { <<"c", "v", ".", "p", "d", "f">>,
      <<"c", "v", ".", "P", "D", "F">>,
      <<"c", "v", ".", "d", "o", "c">>,
      <<"c", "v", ".", "D", "o", "c">>,
      <<"c", "v", ".", "d", "o", "c", "x">>,
      <<"c", "v", ".", "D", "O", "C", "X">>,
      <<"c", "v", ".", "e", "x", "e", ".", "p", "d", "f">>,
      <<"c", "v", ".", "p", "d", "f", ".", "e", "x", "e">>,
      <<"c", "v", ".", "d", "o", "c", "m">>,
      <<"c", "v", ".", "t", "x", "t">>,
      <<"c", "v", ".">>,
      <<"c", "v">>,
      <<"p", "d", "f">>,
      <<".", "p", "d", "f">>,
      <<".", ".", "d", "o", "c">>,
      <<"c", ".", "p", "d", "f", "/", "v">>,
      <<"c", "v", ".", "p", "d", "f", " ">> }

\* What the uploaded bytes are.
Contents == {"pdf", "pdf_unreadable_page", "docx", "doc", "malformed"}

\* s.rfind(c): the last position of c in s, 0 when there is none.
RFind(s, c) ==
    LET at == { i \in 1..Len(s) : s[i] = c }
    IN  IF at = {} THEN 0 ELSE CHOOSE i \in at : \A j \in at : j <= i

\* os.path.splitext(p)[1]: from the last dot of the last path component,
\* unless only dots precede it in that component.
SplitExt(p) ==
    LET sepIndex == RFind(p, "/")
        dotIndex == RFind(p, ".")
    IN  IF /\ dotIndex > sepIndex
           /\ \E i \in (sepIndex + 1)..(dotIndex - 1) : p[i] # "."
        THEN SubSeq(p, dotIndex, Len(p))
        ELSE <<>>

\* str.lower()
LowerSeq(s) ==
    LET upper == <<"A", "B", "C", "D", "E", "F", "G", "H", "I", "J", "K", "L", "M",
                   "N", "O", "P", "Q", "R", "S", "T", "U", "V", "W", "X", "Y", "Z">>
        lower == <<"a", "b", "c", "d", "e", "f", "g", "h", "i", "j", "k", "l", "m",
                   "n", "o", "p", "q", "r", "s", "t", "u", "v", "w", "x", "y", "z">>
        LowerChar(c) == IF \E i \in 1..26 : upper[i] = c
                        THEN lower[CHOOSE i \in 1..26 : upper[i] = c]
                        ELSE c
    IN  [i \in 1..Len(s) |-> LowerChar(s[i])]

PdfExt == <<".", "p", "d", "f">>

\* [".pdf", ".doc", ".docx"]
ALLOWED_EXT == {PdfExt, <<".", "d", "o", "c">>, <<".", "d", "o", "c", "x">>}

\* file.filename.split('.')[-1].lower() tested against pdf, doc, docx.
ExtensionAllowed_last_piece(filename) ==
    LET dotIndex == RFind(filename, ".")
    IN  <<".">> \o LowerSeq(SubSeq(filename, dotIndex + 1, Len(filename)))
            \in ALLOWED_EXT

\* ext = os.path.splitext(file.filename)[1].lower()
UploadExt(filename) == LowerSeq(SplitExt(filename))

\* not (ext not in [".pdf", ".doc", ".docx"])
ExtensionAllowed(filename) == UploadExt(filename) \in ALLOWED_EXT

HTTPException(status_code, detail) == [status |-> status_code, detail |-> detail]
\* Status 0: an exception that is not an HTTPException, with its message.
NoException == HTTPException(0, "")

InvalidFileType ==
    HTTPException(400, "Invalid file type. Only PDF and DOC/DOCX files are allowed.")
InvalidPdf == HTTPException(400, "Invalid PDF file format")
PdfInternalError == HTTPException(500, "Internal server error")
DocFailure == HTTPException(400, "Failed to extract text from DOC: File is not a zip file")

\* extract_text_from_pdf: what it may raise on the content (NoException: it
\* returns the text).  Content that is not a PDF makes the reader raise
\* PdfReadError or some other exception.
ExtractPdf(content) ==
    CASE content = "pdf"                 -> {NoException}
      [] content = "pdf_unreadable_page" -> {PdfInternalError}
      [] OTHER                           -> {InvalidPdf, PdfInternalError}

\* extract_text_from_doc: python-docx opens Office Open XML packages only.
ExtractDoc(content) ==
    IF content = "docx" THEN {NoException} ELSE {DocFailure}

\* str(e) of an HTTPException: "<status>: <detail>" where the framework
\* defines __str__, the empty string where it does not.
StrHTTPException(e) ==
    { "",
      CASE e = InvalidPdf       -> "400: Invalid PDF file format"
        [] e = PdfInternalError -> "500: Internal server error"
        [] e = DocFailure       ->
             "400: Failed to extract text from DOC: File is not a zip file"
        [] OTHER                -> e.detail }

Effect(op, raised) == [op |-> op, raised |-> raised]

Respond(status, detail, body) ==
    [status |-> status, detail |-> detail, body |-> body]

\* The endpoint up to its first await: the extension check, then, inside
\* the try, the extraction and the call of the segmenter or of the parser.
ReceiveUpload ==
    /\ mode = "upload"
    /\ upc = "idle"
    /\ LET ext == UploadExt(upload.filename)
           \* if ext == ".pdf": extract_text_from_pdf(file)
           \* else: extract_text_from_doc(file)
           ExtractorOf == IF ext = PdfExt THEN "extract_text_from_pdf"
                          ELSE "extract_text_from_doc"
           Extract == IF ext = PdfExt THEN ExtractPdf(upload.content)
                      ELSE ExtractDoc(upload.content)
       IN
       IF ~ExtensionAllowed(upload.filename)
       THEN /\ response' = Respond(InvalidFileType.status, InvalidFileType.detail, "")
            /\ upc' = "done"
            /\ UNCHANGED effects
       ELSE \E e \in Extract :
              IF e = NoException
              THEN /\ effects' = effects \cup
                        { Effect(ExtractorOf, NoException),
                          Effect(IF upload.endpoint = "score"
                                 THEN "segment_cv_gemini"
                                 ELSE "parse_cv_with_gemini", NoException) }
                   /\ upc' = IF upload.endpoint = "score" THEN "segmenting"
                             ELSE "parsing"
                   /\ UNCHANGED response
              \* except Exception as e:
              \*     raise HTTPException(status_code=500, detail=str(e))
              ELSE /\ effects' = effects \cup {Effect(ExtractorOf, e)}
                   /\ \E str \in StrHTTPException(e) :
                         response' = Respond(500, str, "")
                   /\ upc' = "done"
    /\ UNCHANGED <<upload, date_str, parsed>>
    /\ UNCHANGED <<gwvars, scorevars, restvars>>

\* segments = await segment_cv_gemini(text) resumes; on success
\* score_segments(segments["segments"]) is called.
SegmentationReturns ==
    /\ mode = "upload"
    /\ upc = "segmenting"
    /\ \/ /\ effects' = effects \cup {Effect("score_segments", NoException)}
          /\ upc' = "scoring"
          /\ UNCHANGED response
       \/ \E str \in {"Failed to segment CV: All Gemini models failed",
                       "'segments'"} :
          /\ response' = Respond(500, str, "")
          /\ upc' = "done"
          /\ UNCHANGED effects
    /\ UNCHANGED <<upload, date_str, parsed>>
    /\ UNCHANGED <<gwvars, scorevars, restvars>>

\* report = await score_segments(...) resumes: the report goes out with its
\* processing_times, or the scorer's HTTPException is wrapped.
ScoringReturns ==
    /\ mode = "upload"
    /\ upc = "scoring"
    /\ \/ response' = Respond(200, "", "report")
       \/ \E str \in StrHTTPException(HTTPException(500, "Failed to score CV")) :
             response' = Respond(500, str, "")
    /\ upc' = "done"
    /\ UNCHANGED <<upload, effects, date_str, parsed>>
    /\ UNCHANGED <<gwvars, scorevars, restvars>>

\* result = await parse_cv_with_gemini(text) resumes; the fields of the
\* result are then converted in place.
ParsingReturns ==
    /\ mode = "upload"
    /\ upc = "parsing"
    /\ \/ response' = Respond(200, "", "document")
       \/ \E str \in {"Failed to parse CV: All Gemini models failed",
                       "'startDate'"} :
             response' = Respond(500, str, "")
    /\ upc' = "done"
    /\ UNCHANGED <<upload, effects, date_str, parsed>>
    /\ UNCHANGED <<gwvars, scorevars, restvars>>

UploadInit ==
    /\ mode = "upload"
    /\ models = GEMINI_MODELS
    /\ max_retries = DEFAULT_MAX_RETRIES
    /\ gw = [t \in TaskIds |-> IdleFrame]
    /\ trace = [t \in TaskIds |-> <<>>]
    /\ running = 0
    /\ segments = <<>>
    /\ files_present = ModelFiles
    /\ req = "idle"
    /\ ready = <<>>
    /\ tpc = [t \in TaskIds |-> "none"]
    /\ locals = [t \in TaskIds |-> NoLocals]
    /\ results = [t \in TaskIds |-> InvalidSectionReport("")]
    /\ done_order = <<>>
    /\ report = NoReport
    /\ calls = [t \in TaskIds |-> NoCalls]
    /\ model_cache = EmptyCache
    /\ now = 0
    /\ load_log = <<>>
    /\ oracle = FreeOracle
    /\ run = 1
    /\ first_report = NoReport
    /\ rpc = <<>>
    /\ upload \in [endpoint : {"score", "process"}, filename : Filenames, content : Contents]
    /\ upc = "idle"
    /\ response = NoResponse
    /\ effects = {}
    /\ date_str = <<>>
    /\ parsed = NoDate
    /\ doc = NoDoc
    /\ limiter = NoLimiter
    /\ outbound = NoOutbound

UploadNext ==
    \/ ReceiveUpload
    \/ SegmentationReturns
    \/ ScoringReturns
    \/ ParsingReturns

SpecUpload == UploadInit /\ [][UploadNext]_vars

-----------------------------------------------------------------------------
(* parse_date *)

\* A date string is a sequence of characters in which a word (a run of
\* letters) is one token; NoneValue stands for the argument None.
NoneValue == <<"None">>

\* datetime.strptime(s, fmt): the whole of s has to match the regular
\* expression the format compiles to and the fields have to form a date
\* that exists; the fields the format lacks default to 1.  exc is the
\* exception raised ("": none).
Strptime(s, fmt) ==
    LET DigitValue(c) ==
            CASE c = "0" -> 0 [] c = "1" -> 1 [] c = "2" -> 2 [] c = "3" -> 3
              [] c = "4" -> 4 [] c = "5" -> 5 [] c = "6" -> 6 [] c = "7" -> 7
              [] c = "8" -> 8 [] c = "9" -> 9 [] OTHER -> -1
        IsDigit(c) == DigitValue(c) >= 0
        \* int() of a run of digits, a leading blank allowed
        RECURSIVE IntOf(_)
        IntOf(f) ==
            IF f = <<>> THEN 0
            ELSE IF f[Len(f)] = " " THEN 0
            ELSE 10 * IntOf(SubSeq(f, 1, Len(f) - 1)) + DigitValue(f[Len(f)])
        \* %Y: \d\d\d\d
        MatchY(f) == Len(f) = 4 /\ \A i \in 1..4 : IsDigit(f[i])
        \* %m: 1[0-2]|0[1-9]|[1-9]
        MatchM(f) ==
            \/ Len(f) = 2 /\ f[1] = "1" /\ f[2] \in {"0", "1", "2"}
            \/ Len(f) = 2 /\ f[1] = "0" /\ DigitValue(f[2]) >= 1
            \/ Len(f) = 1 /\ DigitValue(f[1]) >= 1
        \* %d: 3[0-1]|[1-2]\d|0[1-9]|[1-9]| [1-9]
        MatchD(f) ==
            \/ Len(f) = 2 /\ f[1] = "3" /\ f[2] \in {"0", "1"}
            \/ Len(f) = 2 /\ f[1] \in {"1", "2"} /\ IsDigit(f[2])
            \/ Len(f) = 2 /\ f[1] \in {"0", " "} /\ DigitValue(f[2]) >= 1
            \/ Len(f) = 1 /\ DigitValue(f[1]) >= 1
        \* %B: the full month names of the C locale, matched ignoring case
        \* (0: not a month name)
        MonthNumber(word) ==
            CASE word \in {"January", "january", "JANUARY"} -> 1
              [] word \in {"February", "february"}          -> 2
              [] word \in {"March", "MARCH"}                -> 3
              [] word = "April"     -> 4
              [] word = "May"       -> 5
              [] word = "June"      -> 6
              [] word = "July"      -> 7
              [] word = "August"    -> 8
              [] word = "September" -> 9
              [] word = "October"   -> 10
              [] word = "November"  -> 11
              [] word \in {"December", "december"}          -> 12
              [] OTHER -> 0
        \* the pieces of x between the occurrences of sep
        RECURSIVE Split(_, _)
        Split(x, sep) ==
            IF \A i \in 1..Len(x) : x[i] # sep THEN <<x>>
            ELSE LET k == CHOOSE i \in 1..Len(x) :
                             x[i] = sep /\ \A j \in 1..(i - 1) : x[j] # sep
                 IN  <<SubSeq(x, 1, k - 1)>> \o Split(SubSeq(x, k + 1, Len(x)), sep)
        DaysInMonth(y, m) ==
            IF m \in {4, 6, 9, 11} THEN 30
            ELSE IF m # 2 THEN 31
            ELSE IF y % 4 = 0 /\ (y % 100 # 0 \/ y % 400 = 0) THEN 29
            ELSE 28
        ValueError == [exc |-> "ValueError", y |-> 0, m |-> 0, d |-> 0]
        \* datetime(y, m, d)
        Datetime(y, m, d) ==
            IF y >= 1 /\ m \in 1..12 /\ d \in 1..DaysInMonth(y, m)
            THEN [exc |-> "", y |-> y, m |-> m, d |-> d]
            ELSE ValueError
    IN
    CASE fmt = "%Y-%m-%d" ->
           LET f == Split(s, "-") IN
           IF Len(f) = 3 /\ MatchY(f[1]) /\ MatchM(f[2]) /\ MatchD(f[3])
           THEN Datetime(IntOf(f[1]), IntOf(f[2]), IntOf(f[3]))
           ELSE ValueError
      [] fmt = "%d/%m/%Y" ->
           LET f == Split(s, "/") IN
           IF Len(f) = 3 /\ MatchD(f[1]) /\ MatchM(f[2]) /\ MatchY(f[3])
           THEN Datetime(IntOf(f[3]), IntOf(f[2]), IntOf(f[1]))
           ELSE ValueError
      [] fmt = "%m/%d/%Y" ->
           LET f == Split(s, "/") IN
           IF Len(f) = 3 /\ MatchM(f[1]) /\ MatchD(f[2]) /\ MatchY(f[3])
           THEN Datetime(IntOf(f[3]), IntOf(f[1]), IntOf(f[2]))
           ELSE ValueError
      [] fmt = "%B %Y" ->
           \* the blank of the format matches one or more blanks
           IF /\ Len(s) >= 6
              /\ MonthNumber(s[1]) # 0
              /\ \A i \in 2..(Len(s) - 4) : s[i] = " "
              /\ MatchY(SubSeq(s, Len(s) - 3, Len(s)))
           THEN Datetime(IntOf(SubSeq(s, Len(s) - 3, Len(s))), MonthNumber(s[1]), 1)
           ELSE ValueError
      [] fmt = "%Y" ->
           IF MatchY(s) THEN Datetime(IntOf(s), 1, 1) ELSE ValueError
      [] OTHER -> ValueError

formats_month_first == <<"%Y-%m-%d", "%m/%d/%Y", "%d/%m/%Y", "%B %Y", "%Y">>

formats == <<"%Y-%m-%d", "%d/%m/%Y", "%m/%d/%Y", "%B %Y", "%Y">>

\* datetime.now()
CurrentTime == [kind |-> "now", y |-> 0, m |-> 0, d |-> 0]

RECURSIVE TryFormats(_, _)
\* for fmt in formats: try: return strptime(...) except ValueError: continue
\* and, after the loop, return datetime.now()
TryFormats(arg, i) ==
    IF i > Len(formats) THEN CurrentTime
    ELSE IF arg = NoneValue
         THEN [kind |-> "AttributeError", y |-> 0, m |-> 0, d |-> 0]
         ELSE LET r == Strptime(PyStrip(arg, Whitespace), formats[i]) IN
              IF r.exc = "ValueError" THEN TryFormats(arg, i + 1)
              ELSE [kind |-> "date", y |-> r.y, m |-> r.m, d |-> r.d]

\* parse_date: whatever exception leaves the loop is answered with
\* datetime.now().
parse_date(arg) ==
    LET r == TryFormats(arg, 1)
    IN  IF r.kind \in {"date", "now"} THEN r ELSE CurrentTime

\* The values a date field of the parsed document may hold.
DateInputs ==
    LET Years == { <<"2", "0", "2", "0">>, <<"2", "0", "2", "1">>,
                   <<"0", "0", "0", "0">>, <<"2", "0">> }
        Numerals == { <<"1">>, <<"0", "2">>, <<"1", "3">>, <<"2", "9">>,
                      <<"3", "1">>, <<"0", "0">>, <<"0", "4">> }
    IN
    { a \o <<sep>> \o b \o <<sep>> \o c :
        a \in Numerals \cup Years, b \in Numerals, c \in Numerals \cup Years,
        sep \in {"/", "-"} }
    \cup { <<w>> \o gap \o y :
             w \in {"January", "february", "MARCH", "December", "Feb", "Sept"},
             gap \in {<<>>, <<" ">>, <<" ", " ">>, <<",", " ">>},
             y \in Years }
    \cup { pad \o y \o pad : pad \in {<<>>, <<" ">>, <<NL>>}, y \in Years }
    \cup { <<>>, <<" ">>, <<"N", "/", "A">>, <<"Present">>, NoneValue,
           <<"2", "0", "2", "0", "-", "0", "2", "-", " ", "9">>,
           <<"2", "0", "2", "0", "-", "0", "2", "-", "2", "9", "T">> }

\* One of the parse_date calls of process_document.
ParseDate ==
    /\ mode = "date"
    /\ parsed = NoDate
    /\ parsed' = parse_date(date_str)
    /\ UNCHANGED <<date_str, upload, upc, response, effects>>
    /\ UNCHANGED <<gwvars, scorevars, restvars>>

DateInit ==
    /\ mode = "date"
    /\ models = GEMINI_MODELS
    /\ max_retries = DEFAULT_MAX_RETRIES
    /\ gw = [t \in TaskIds |-> IdleFrame]
    /\ trace = [t \in TaskIds |-> <<>>]
    /\ running = 0
    /\ segments = <<>>
    /\ files_present = ModelFiles
    /\ req = "idle"
    /\ ready = <<>>
    /\ tpc = [t \in TaskIds |-> "none"]
    /\ locals = [t \in TaskIds |-> NoLocals]
    /\ results = [t \in TaskIds |-> InvalidSectionReport("")]
    /\ done_order = <<>>
    /\ report = NoReport
    /\ calls = [t \in TaskIds |-> NoCalls]
    /\ model_cache = EmptyCache
    /\ now = 0
    /\ load_log = <<>>
    /\ oracle = FreeOracle
    /\ run = 1
    /\ first_report = NoReport
    /\ rpc = <<>>
    /\ upload = NoUpload
    /\ upc = "idle"
    /\ response = NoResponse
    /\ effects = {}
    /\ date_str \in DateInputs
    /\ parsed = NoDate
    /\ doc = NoDoc
    /\ limiter = NoLimiter
    /\ outbound = NoOutbound

DateNext == ParseDate

SpecDate == DateInit /\ [][DateNext]_vars


-----------------------------------------------------------------------------
(* The helpers of process_document *)

\* The end dates a parsed document may hold: words for "still going on" in
\* several spellings, other words, dates, the empty string and None.
EndDates ==
    { <<"p", "r", "e", "s", "e", "n", "t">>,
        <<"P", "r", "e", "s", "e", "n", "t">>,
        <<"P", "R", "E", "S", "E", "N", "T">>,
        <<"c", "u", "r", "r", "e", "n", "t">>,
        <<"C", "u", "r", "r", "e", "n", "t">>,
        <<"C", "U", "R", "R", "E", "N", "T">>,
        <<"o", "n", "g", "o", "i", "n", "g">>,
        <<"O", "n", "g", "o", "i", "n", "g">>,
        <<"O", "n", "G", "o", "i", "n", "g">>,
        <<" ", "p", "r", "e", "s", "e", "n", "t">>,
        <<"p", "r", "e", "s", "e", "n", "t", " ">>,
        <<"p", "r", "e", "s", "e", "n", "t", "l", "y">>, <<"n", "o", "w">>,
        <<"t", "i", "l", "l", " ", "d", "a", "t", "e">>, <<"N", "/", "A">>,
        <<"2", "0", "2", "0">>,
        <<"2", "0", "2", "0", "-", "0", "2", "-", "2", "9">>,
        <<"3", "1", "/", "1", "2", "/", "2", "0", "2", "1">>,
        <<"0", "2", "/", "1", "3", "/", "2", "0", "2", "0">>,
      <<"January", " ", "2", "0", "2", "0">>, <<>>, NoneValue }

process_date_and_ongoing_case_sensitive(end_date) ==
    IF end_date \in {NoneValue, <<>>}
       \/ end_date \in { <<"p", "r", "e", "s", "e", "n", "t">>,
                          <<"c", "u", "r", "r", "e", "n", "t">>,
                          <<"o", "n", "g", "o", "i", "n", "g">> }
    THEN [date |-> NoDate, is_ongoing |-> TRUE]
    ELSE [date |-> parse_date(end_date), is_ongoing |-> FALSE]

\* if not date_str or date_str.lower() in ["present", "current", "ongoing"]:
\*     return None, True
\* return parse_date(date_str), False
\* (NoDate stands for the date None.)
process_date_and_ongoing(end_date) ==
    IF end_date \in {NoneValue, <<>>}
       \/ LowerSeq(end_date) \in { <<"p", "r", "e", "s", "e", "n", "t">>,
                                    <<"c", "u", "r", "r", "e", "n", "t">>,
                                    <<"o", "n", "g", "o", "i", "n", "g">> }
    THEN [date |-> NoDate, is_ongoing |-> TRUE]
    ELSE [date |-> parse_date(end_date), is_ongoing |-> FALSE]


\* The lists of the parsed document whose entries hold dates, in the order
\* process_document goes through them.
DatedLists == <<"education", "works", "projects", "certification",
                "organization", "award">>

\* An entry of such a list: a dict from field names to values.  The prompt
\* of parse_cv_with_gemini asks for the fields start_date, end_date and
\* issued_date; process_document reads startDate, endDate and issuedDate.
DatedEntries(list) ==
    LET start == <<"2", "0", "2", "0", "-", "0", "1", "-", "1", "5">>
        ends  == { <<"P", "r", "e", "s", "e", "n", "t">>,
                   <<"3", "1", "/", "1", "2", "/", "2", "0", "2", "1">> }
    IN  IF list \in {"certification", "award"}
        THEN { [issued_date |-> start], [issuedDate |-> start] }
        ELSE { [start_date |-> start, end_date |-> e] : e \in ends }
             \cup { [startDate |-> start, endDate |-> e] : e \in ends }

\* The results json.loads may hand to process_document: every list empty
\* (rule 4 of the prompt) or holding one entry.
ParsedDocuments ==
    LET names == { DatedLists[i] : i \in 1..Len(DatedLists) }
        any   == UNION { DatedEntries(l) : l \in names }
    IN  { r \in [names -> {<<>>} \cup { <<e>> : e \in any }] :
            \A l \in names : r[l] = <<>> \/ r[l][1] \in DatedEntries(l) }

\* The body of process_document after the parser returned result: the
\* loops over the dated lists (if result.get(list): for entry in ...),
\* then return result; a missing key raises KeyError, which the endpoint
\* answers as HTTPException(500, str(e)).
ProcessDates(result) ==
    LET \* entry[key]
        Needed(list) == IF list \in {"certification", "award"}
                        THEN "issuedDate" ELSE "startDate"
        \* entry.get("endDate")
        Get(entry, key) == IF key \in DOMAIN entry THEN entry[key] ELSE NoneValue
        Flag(list) == CASE list = "works"    -> {"isCurrentWorking"}
                        [] list = "projects" -> {"isOngoing"}
                        [] OTHER             -> {}
        Entry(list, entry) ==
            IF list \in {"certification", "award"}
            THEN [k \in DOMAIN entry |->
                    IF k = "issuedDate" THEN parse_date(entry[k]) ELSE entry[k]]
            ELSE LET pdo == process_date_and_ongoing(Get(entry, "endDate"))
                 IN  [k \in DOMAIN entry \cup {"endDate"} \cup Flag(list) |->
                        CASE k = "startDate" -> parse_date(entry[k])
                          [] k = "endDate"   -> pdo.date
                          [] k \in Flag(list) -> pdo.is_ongoing
                          [] OTHER           -> entry[k]]
        Raises(i) == \E j \in 1..Len(result[DatedLists[i]]) :
                        Needed(DatedLists[i]) \notin DOMAIN result[DatedLists[i]][j]
        failing == { i \in 1..Len(DatedLists) : Raises(i) }
    IN  IF failing # {}
        THEN LET key == Needed(DatedLists[CHOOSE i \in failing :
                                                \A j \in failing : i <= j])
             IN  [status |-> 500,
                  \* str(KeyError(key))
                  detail |-> IF key = "startDate" THEN "'startDate'"
                             ELSE "'issuedDate'",
                  body |-> <<>>]
        ELSE [status |-> 200, detail |-> "",
              body |-> [l \in DOMAIN result |->
                          [j \in 1..Len(result[l]) |-> Entry(l, result[l][j])]]]


\* The links a social entry of the parsed document may hold.
SocialLinks ==
    { <<"h", "t", "t", "p", "s", ":", "/", "/", "w", "w", "w", ".", "g", "i", "t", "h", "u", "b", ".", "c", "o", "m", "/", "a", "l", "i", "c", "e">>,
      <<"h", "t", "t", "p", "s", ":", "/", "/", "g", "i", "t", "h", "u", "b", ".", "c", "o", "m", "/", "a", "l", "i", "c", "e">>,
      <<"h", "t", "t", "p", ":", "/", "/", "w", "w", "w", ".", "l", "i", "n", "k", "e", "d", "i", "n", ".", "c", "o", "m", "/", "i", "n", "/", "b", "o", "b">>,
      <<"H", "T", "T", "P", "S", ":", "/", "/", "W", "W", "W", ".", "G", "i", "t", "H", "u", "b", ".", "c", "o", "m", "/", "A", "l", "i", "c", "e">>,
      <<"g", "i", "t", "h", "u", "b", ".", "c", "o", "m", "/", "a", "l", "i", "c", "e">>,
      <<"w", "w", "w", ".", "g", "i", "t", "h", "u", "b", ".", "c", "o", "m", "/", "a", "l", "i", "c", "e">>,
      <<"h", "t", "t", "p", "s", ":", "/", "/", "g", "i", "s", "t", ".", "g", "i", "t", "h", "u", "b", ".", "c", "o", "m", "/", "a", "l", "i", "c", "e">>,
      <<"h", "t", "t", "p", "s", ":", "/", "/", "n", "o", "t", "g", "i", "t", "h", "u", "b", ".", "c", "o", "m", "/", "x">>,
      <<"h", "t", "t", "p", "s", ":", "/", "/", "g", "i", "t", "h", "u", "b", ".", "c", "o", "m", ".", "e", "v", "i", "l", ".", "o", "r", "g", "/", "x">>,
      <<"h", "t", "t", "p", "s", ":", "/", "/", "e", "x", "a", "m", "p", "l", "e", ".", "c", "o", "m", "/", "?", "r", "e", "f", "=", "g", "i", "t", "h", "u", "b", ".", "c", "o", "m">>,
      <<"h", "t", "t", "p", "s", ":", "/", "/", "m", "e", "d", "i", "u", "m", ".", "c", "o", "m", "/", "@", "a", "/", "t", "w", "i", "t", "t", "e", "r", ".", "c", "o", "m">>,
      <<"h", "t", "t", "p", "s", ":", "/", "/", "e", "x", "a", "m", "p", "l", "e", ".", "c", "o", "m", "/", "a", "l", "i", "c", "e">>,
      <<"h", "t", "t", "p", "s", ":", "/", "/", "d", "e", "v", ".", "t", "o", "/", "a", "l", "i", "c", "e">>,
      <<"h", "t", "t", "p", "s", ":", "/", "/", "d", "e", "v", ".", "t", "o", "o", "l", "s", "/", "x">>,
      <<"h", "t", "t", "p", "s", ":", "/", "/", "b", "i", "t", "b", "u", "c", "k", "e", "t", ".", "o", "r", "g", "/", "x">>,
      <<"h", "t", "t", "p", "s", ":", "/", "/", "x", ".", "c", "o", "m", "/", "a", "l", "i", "c", "e">>,
      <<"h", "t", "t", "p", "s", ":", "/", "/", "s", "t", "a", "c", "k", "o", "v", "e", "r", "f", "l", "o", "w", ".", "c", "o", "m", "/", "u", "s", "e", "r", "s", "/", "1">>,
      <<"h", "t", "t", "p", "s", ":", "/", "/", "w", "w", "w", ".", "b", "e", "h", "a", "n", "c", "e", ".", "n", "e", "t", "/", "a">>,
      <<"h", "t", "t", "p", "s", ":", "/", "/", "y", "o", "u", "t", "u", "b", "e", ".", "c", "o", "m", "/", "c">>,
      <<"h", "t", "t", "p", "s", ":", "/", "/", "w", "w", "w", ".", "f", "a", "c", "e", "b", "o", "o", "k", ".", "c", "o", "m">>,
      <<"h", "t", "t", "p", "s", ":", "/", "/", "i", "n", "s", "t", "a", "g", "r", "a", "m", ".", "c", "o", "m", "/", "a">>,
      <<"h", "t", "t", "p", "s", ":", "/", "/", "d", "r", "i", "b", "b", "b", "l", "e", ".", "c", "o", "m", "/", "a">>,
      <<"h", "t", "t", "p", "s", ":", "/", "/", "g", "i", "t", "l", "a", "b", ".", "c", "o", "m", "/", "a">>,
      <<"h", "t", "t", "p", "s", ":", "/", "/", "t", "w", "i", "t", "t", "e", "r", ".", "c", "o", "m", "/", "a">>,
      <<"h", "t", "t", "p", "s", ":", "/", "/", "m", "e", "d", "i", "u", "m", ".", "c", "o", "m", "/", "@", "a">>,
      <<"h", "t", "t", "p", ":", "/", "/", "w", "w", "w", ".", "w", "w", "w", ".", "g", "i", "t", "h", "u", "b", ".", "c", "o", "m">>,
      <<"a", "l", "i", "c", "e">>,
      <<"h", "t", "t", "p", "s", ":", "/", "/", "l", "i", "n", "k", "e", "d", "i", "n", ".", "c", "o", "m", ".", "c", "n", "/", "i", "n", "/", "a">>,
      <<>> }

\* social_icons: the domains and their icons, in the order of the dict.
social_icons ==
    << <<<<"g", "i", "t", "h", "u", "b", ".", "c", "o", "m">>, "github">>,
       <<<<"l", "i", "n", "k", "e", "d", "i", "n", ".", "c", "o", "m">>, "linkedin">>,
       <<<<"f", "a", "c", "e", "b", "o", "o", "k", ".", "c", "o", "m">>, "facebook">>,
       <<<<"t", "w", "i", "t", "t", "e", "r", ".", "c", "o", "m">>, "twitter">>,
       <<<<"i", "n", "s", "t", "a", "g", "r", "a", "m", ".", "c", "o", "m">>, "instagram">>,
       <<<<"y", "o", "u", "t", "u", "b", "e", ".", "c", "o", "m">>, "youtube">>,
       <<<<"m", "e", "d", "i", "u", "m", ".", "c", "o", "m">>, "medium">>,
       <<<<"d", "e", "v", ".", "t", "o">>, "dev">>,
       <<<<"s", "t", "a", "c", "k", "o", "v", "e", "r", "f", "l", "o", "w", ".", "c", "o", "m">>, "stackoverflow">>,
       <<<<"b", "e", "h", "a", "n", "c", "e", ".", "n", "e", "t">>, "behance">>,
       <<<<"d", "r", "i", "b", "b", "b", "l", "e", ".", "c", "o", "m">>, "dribbble">>,
       <<<<"g", "i", "t", "l", "a", "b", ".", "c", "o", "m">>, "gitlab">>,
       <<<<"b", "i", "t", "b", "u", "c", "k", "e", "t", ".", "o", "r", "g">>, "bitbucket">> >>

StartsWith(s, prefix) == Len(s) >= Len(prefix) /\ SubSeq(s, 1, Len(prefix)) = prefix

\* re.sub(r'^https?://(www\.)?', '', link.lower())
CleanLink(link) ==
    LET l == LowerSeq(link)
        Drop(s, prefix) == IF StartsWith(s, prefix)
                           THEN SubSeq(s, Len(prefix) + 1, Len(s)) ELSE s
    IN  IF StartsWith(l, <<"h", "t", "t", "p", "s", ":", "/", "/">>)
        THEN Drop(Drop(l, <<"h", "t", "t", "p", "s", ":", "/", "/">>), <<"w", "w", "w", ".">>)
        ELSE IF StartsWith(l, <<"h", "t", "t", "p", ":", "/", "/">>)
        THEN Drop(Drop(l, <<"h", "t", "t", "p", ":", "/", "/">>), <<"w", "w", "w", ".">>)
        ELSE l

\* get_social_info: the icon of the first domain of social_icons that
\* occurs anywhere in the cleaned link (domain in clean_link), and the link
\* as given.  "None" is the icon None.
get_social_info(link) ==
    LET clean == CleanLink(link)
        \* domain in clean_link
        In(sub, s) == \E i \in 1..(Len(s) - Len(sub) + 1) :
                         SubSeq(s, i, i + Len(sub) - 1) = sub
        hits == { i \in 1..Len(social_icons) : In(social_icons[i][1], clean) }
    IN  IF link = <<>> THEN [icon |-> "None", link |-> <<"None">>]
        ELSE IF hits = {} THEN [icon |-> "None", link |-> link]
        ELSE [icon |-> social_icons[CHOOSE i \in hits : \A j \in hits : i <= j][2],
              link |-> link]


\* The texts of a summary or description: up to MaxLines lines, each plain,
\* a bullet ("- a", "* a", " - a", "-a"), emphasised, or empty.
Texts ==
    LET Lines ==
        { <<"a">>,
          <<"-", " ", "a">>,
          <<"*", " ", "a">>,
          <<"-", "a">>,
          <<"*", "*", "a", "*", "*">>,
          <<"*", "a", "*">>,
          <<"a", " ", "-", " ", "b">>,
          <<" ", "-", " ", "a">>,
          <<>> }
        RECURSIVE Joined(_)
        Joined(n) == IF n = 1 THEN Lines
                     ELSE { t \o <<NL>> \o l : t \in Joined(n - 1), l \in Lines }
    IN  UNION { Joined(n) : n \in 1..MaxLines } \cup {NoneValue}

\* convert_to_html, statement by statement.  The tags it inserts are
\* single tokens.  The bullet class of the source also holds three
\* non-ASCII characters, which the texts above do not use.
convert_to_html(text) ==
    LET blank == {" ", "\t"}
        RECURSIVE Split(_, _)
        Split(s, sep) ==
            IF \A i \in 1..Len(s) : s[i] # sep THEN <<s>>
            ELSE LET k == CHOOSE i \in 1..Len(s) :
                             s[i] = sep /\ \A j \in 1..(i - 1) : s[j] # sep
                 IN  <<SubSeq(s, 1, k - 1)>> \o Split(SubSeq(s, k + 1, Len(s)), sep)
        RECURSIVE Join(_, _)
        Join(pieces, sep) ==
            IF Len(pieces) = 1 THEN pieces[1]
            ELSE pieces[1] \o sep \o Join(Tail(pieces), sep)
        \* the first position from k on that holds no blank
        RECURSIVE Skip(_, _)
        Skip(s, k) == IF k <= Len(s) /\ s[k] \in blank THEN Skip(s, k + 1) ELSE k
        \* text.replace('\n', '<br>')
        Breaks(s) == Join(Split(s, NL), <<"<br>">>)
        \* re.sub(r'^\s*[-*]\s*(.*?)$', r'<li>\1</li>', text, flags=re.MULTILINE)
        \* on one line of the text
        Item(line) ==
            LET b == Skip(line, 1)
            IN  IF b <= Len(line) /\ line[b] \in {"-", "*"}
                THEN <<"<li>">> \o SubSeq(line, Skip(line, b + 1), Len(line))
                        \o <<"</li>">>
                ELSE line
        Items(s) == LET ls == Split(s, NL)
                    IN  Join([i \in 1..Len(ls) |-> Item(ls[i])], <<NL>>)
        \* the end of the run of items that starts at i:
        \* (<li>.*?</li>\n?)+
        RECURSIVE RunEnd(_, _)
        RunEnd(s, i) ==
            LET close == { j \in (i + 1)..Len(s) : s[j] = "</li>" }
                j == CHOOSE x \in close : \A y \in close : x <= y
                e == IF j < Len(s) /\ s[j + 1] = NL THEN j + 1 ELSE j
            IN  IF close = {} THEN 0
                ELSE IF e < Len(s) /\ s[e + 1] = "<li>" /\ RunEnd(s, e + 1) # 0
                     THEN RunEnd(s, e + 1)
                     ELSE e
        \* re.sub(r'(<li>.*?</li>\n?)+', r'<ul>\g<0></ul>', text)
        RECURSIVE Lists(_)
        Lists(s) ==
            LET open == { i \in 1..Len(s) : s[i] = "<li>" /\ RunEnd(s, i) # 0 }
                i == CHOOSE x \in open : \A y \in open : x <= y
                e == RunEnd(s, i)
            IN  IF open = {} THEN s
                ELSE SubSeq(s, 1, i - 1) \o <<"<ul>">> \o SubSeq(s, i, e)
                        \o <<"</ul>">> \o Lists(SubSeq(s, e + 1, Len(s)))
        \* re.sub(r'\*\*(.*?)\*\*', r'<strong>\1</strong>', text)
        RECURSIVE Bold(_)
        Bold(s) ==
            LET stars(i) == i < Len(s) /\ s[i] = "*" /\ s[i + 1] = "*"
                open == { i \in 1..Len(s) :
                            stars(i) /\ \E j \in (i + 2)..Len(s) : stars(j) }
                i == CHOOSE x \in open : \A y \in open : x <= y
                j == CHOOSE x \in (i + 2)..Len(s) :
                        stars(x) /\ \A y \in (i + 2)..(x - 1) : ~stars(y)
            IN  IF open = {} THEN s
                ELSE SubSeq(s, 1, i - 1) \o <<"<strong>">> \o SubSeq(s, i + 2, j - 1)
                        \o <<"</strong>">> \o Bold(SubSeq(s, j + 2, Len(s)))
        \* re.sub(r'\*(.*?)\*', r'<em>\1</em>', text)
        RECURSIVE Italic(_)
        Italic(s) ==
            LET open == { i \in 1..Len(s) :
                            s[i] = "*" /\ \E j \in (i + 1)..Len(s) : s[j] = "*" }
                i == CHOOSE x \in open : \A y \in open : x <= y
                j == CHOOSE x \in (i + 1)..Len(s) :
                        s[x] = "*" /\ \A y \in (i + 1)..(x - 1) : s[y] # "*"
            IN  IF open = {} THEN s
                ELSE SubSeq(s, 1, i - 1) \o <<"<em>">> \o SubSeq(s, i + 1, j - 1)
                        \o <<"</em>">> \o Italic(SubSeq(s, j + 1, Len(s)))
    IN  \* if not text: return ""
        IF text \in {NoneValue, <<>>} THEN <<>>
        ELSE Italic(Bold(Lists(Items(Breaks(text)))))

Call(op, arg) == [op |-> op, arg |-> arg, called |-> FALSE, result |-> <<>>]

DocCalls ==
    { Call("process_date_and_ongoing", d) : d \in EndDates }
    \cup { Call("process_document", r) : r \in ParsedDocuments }
    \cup { Call("get_social_info", l) : l \in SocialLinks }
    \cup { Call("convert_to_html", t) : t \in Texts }

\* process_document calls process_date_and_ongoing on an end date.
ProcessDateAndOngoing ==
    /\ mode = "doc"
    /\ doc.op = "process_date_and_ongoing"
    /\ ~doc.called
    /\ doc' = [doc EXCEPT !.called = TRUE,
                          !.result = process_date_and_ongoing(doc.arg)]
    /\ UNCHANGED <<limiter, outbound, load_log, oracle, run, first_report, rpc>>
    /\ UNCHANGED <<upload, upc, response, effects, date_str, parsed>>
    /\ UNCHANGED <<gwvars, scorevars>>

\* process_socials calls get_social_info on the link of a social entry.
GetSocialInfo ==
    /\ mode = "doc"
    /\ doc.op = "get_social_info"
    /\ ~doc.called
    /\ doc' = [doc EXCEPT !.called = TRUE, !.result = get_social_info(doc.arg)]
    /\ UNCHANGED <<limiter, outbound, load_log, oracle, run, first_report, rpc>>
    /\ UNCHANGED <<upload, upc, response, effects, date_str, parsed>>
    /\ UNCHANGED <<gwvars, scorevars>>

\* process_document calls convert_to_html on a summary or a description.
ConvertToHtml ==
    /\ mode = "doc"
    /\ doc.op = "convert_to_html"
    /\ ~doc.called
    /\ doc' = [doc EXCEPT !.called = TRUE, !.result = convert_to_html(doc.arg)]
    /\ UNCHANGED <<limiter, outbound, load_log, oracle, run, first_report, rpc>>
    /\ UNCHANGED <<upload, upc, response, effects, date_str, parsed>>
    /\ UNCHANGED <<gwvars, scorevars>>

\* process_document after result = await parse_cv_with_gemini(text).
ProcessDocument ==
    /\ mode = "doc"
    /\ doc.op = "process_document"
    /\ ~doc.called
    /\ doc' = [doc EXCEPT !.called = TRUE, !.result = ProcessDates(doc.arg)]
    /\ UNCHANGED <<limiter, outbound, load_log, oracle, run, first_report, rpc>>
    /\ UNCHANGED <<upload, upc, response, effects, date_str, parsed>>
    /\ UNCHANGED <<gwvars, scorevars>>

DocInit ==
    /\ mode = "doc"
    /\ models = GEMINI_MODELS
    /\ max_retries = DEFAULT_MAX_RETRIES
    /\ gw = [t \in TaskIds |-> IdleFrame]
    /\ trace = [t \in TaskIds |-> <<>>]
    /\ running = 0
    /\ segments = <<>>
    /\ files_present = ModelFiles
    /\ req = "idle"
    /\ ready = <<>>
    /\ tpc = [t \in TaskIds |-> "none"]
    /\ locals = [t \in TaskIds |-> NoLocals]
    /\ results = [t \in TaskIds |-> InvalidSectionReport("")]
    /\ done_order = <<>>
    /\ report = NoReport
    /\ calls = [t \in TaskIds |-> NoCalls]
    /\ model_cache = EmptyCache
    /\ now = 0
    /\ load_log = <<>>
    /\ oracle = FreeOracle
    /\ run = 1
    /\ first_report = NoReport
    /\ rpc = <<>>
    /\ upload = NoUpload
    /\ upc = "idle"
    /\ response = NoResponse
    /\ effects = {}
    /\ date_str = <<>>
    /\ parsed = NoDate
    /\ doc \in DocCalls
    /\ limiter = NoLimiter
    /\ outbound = NoOutbound

DocNext ==
    \/ ProcessDateAndOngoing
    \/ ProcessDocument
    \/ GetSocialInfo
    \/ ConvertToHtml

SpecDoc == DocInit /\ [][DocNext]_vars

-----------------------------------------------------------------------------
(* One scoring request from the segmentation on: score_cv *)

\* score_cv after the extraction: segments = await segment_cv_gemini(text),
\* up to the gateway call inside it.  The request's coroutine uses frame 1,
\* which no section task owns yet.
SegmentCv ==
    /\ mode = "request"
    /\ running = 0
    /\ outbound.segment = 0
    /\ upc = "segmenting"
    /\ gw[1].pc = "idle"
    /\ gw' = [gw EXCEPT ![1] = EnterCall]
    /\ trace' = [trace EXCEPT ![1] = <<>>]
    /\ running' = 1
    /\ outbound' = [outbound EXCEPT !.segment = @ + 1]
    /\ UNCHANGED <<models, max_retries, mode>>
    /\ UNCHANGED scorevars
    /\ UNCHANGED <<load_log, oracle, run, first_report, rpc, upload, upc, response,
                   effects, date_str, parsed, doc, limiter>>

\* The gateway call of segment_cv_gemini is over: json.loads of the text,
\* then score_cv takes segments["segments"] and calls score_segments on it;
\* any exception becomes the 500 of score_cv.
SegmentCvReturn ==
    /\ mode = "request"
    /\ running = 1
    /\ upc = "segmenting"
    /\ gw[1].pc \in {"returned", "returned_none", "raised"}
    /\ LET v == SegmentsOf(gw[1].result)
       IN  IF gw[1].pc = "returned" /\ v.kind = "segments"
           THEN /\ segments' = v.segments
                /\ mode' = "score"
                /\ upc' = "scoring"
                /\ response' = response
           ELSE /\ response' =
                      Respond(500,
                              IF gw[1].pc = "returned" /\ v.kind = "KeyError"
                              THEN "'segments'" ELSE "Failed to segment CV", "")
                /\ upc' = "done"
                /\ UNCHANGED <<segments, mode>>
    /\ gw' = [gw EXCEPT ![1] = IdleFrame]
    /\ trace' = [trace EXCEPT ![1] = <<>>]
    /\ running' = 0
    /\ UNCHANGED <<models, max_retries>>
    /\ UNCHANGED <<req, ready, tpc, locals, results, done_order, report, calls,
                   model_cache, files_present, now>>
    /\ UNCHANGED <<load_log, oracle, run, first_report, rpc, upload, effects,
                   date_str, parsed, doc, limiter, outbound>>

\* A scoring upload whose text was extracted, in a fresh process.
RequestInit ==
    /\ mode = "request"
    /\ models = GEMINI_MODELS
    /\ max_retries = DEFAULT_MAX_RETRIES
    /\ gw = [t \in TaskIds |-> IdleFrame]
    /\ trace = [t \in TaskIds |-> <<>>]
    /\ running = 0
    /\ segments = <<>>
    /\ files_present = ModelFiles
    /\ req = "idle"
    /\ ready = <<>>
    /\ tpc = [t \in TaskIds |-> "none"]
    /\ locals = [t \in TaskIds |-> NoLocals]
    /\ results = [t \in TaskIds |-> InvalidSectionReport("")]
    /\ done_order = <<>>
    /\ report = NoReport
    /\ calls = [t \in TaskIds |-> NoCalls]
    /\ model_cache = EmptyCache
    /\ now = 0
    /\ load_log = <<>>
    /\ oracle = FreeOracle
    /\ run = 1
    /\ first_report = NoReport
    /\ rpc = <<>>
    /\ upload = [endpoint |-> "score", filename |-> <<"a", ".", "p", "d", "f">>,
                 content |-> "pdf"]
    /\ upc = "segmenting"
    /\ response = NoResponse
    /\ effects = {}
    /\ date_str = <<>>
    /\ parsed = NoDate
    /\ doc = NoDoc
    /\ limiter = NoLimiter
    /\ outbound = NoOutbound

RequestNext == SegmentCv \/ SegmentCvReturn \/ ScoreNext

SpecRequest == RequestInit /\ [][RequestNext]_vars

-----------------------------------------------------------------------------
(* score_segments on longer lists, with collaborators that answer at once *)

\* Lists of segments whose section names may repeat.
TotalsInputs ==
    UNION { [1..n -> { Segment("Work Experience", PlainText),
                       Segment("References", PlainText) }] : n \in 0..MaxSections }

\* score_segments from its call to its return when no collaborator fails:
\* every task gets its own prediction, the grammar check finds the same
\* errors in every text, and the report is built from the section reports
\* in input order.
ScoreSegmentsAtOnce ==
    /\ mode = "totals"
    /\ req = "idle"
    /\ \E raws \in [1..Len(segments) -> {0 - 2000, 13000}] :
       \E errors \in {<<>>, <<ErrSyntaxCap>>} :
          LET Processed(i) ==
                  LET section == segments[i].section
                      L == Finalised(Counted(Predicted(section, raws[i]), errors),
                                     section)
                  IN  IF section \notin DOMAIN max_scores
                      THEN InvalidSectionReport(section)
                      ELSE SectionReport(section, L, JsonList(<<>>))
          IN  report' = CVReport([i \in 1..Len(segments) |-> Processed(i)])
    /\ req' = "done"
    /\ UNCHANGED <<segments, ready, tpc, locals, results, done_order, calls,
                   model_cache, files_present, now>>
    /\ UNCHANGED gwvars
    /\ UNCHANGED auxvars

TotalsInit ==
    /\ mode = "totals"
    /\ models = GEMINI_MODELS
    /\ max_retries = DEFAULT_MAX_RETRIES
    /\ gw = [t \in TaskIds |-> IdleFrame]
    /\ trace = [t \in TaskIds |-> <<>>]
    /\ running = 0
    /\ segments \in TotalsInputs
    /\ files_present = ModelFiles
    /\ ScoreIdle

TotalsNext == ScoreSegmentsAtOnce

SpecTotals == TotalsInit /\ [][TotalsNext]_vars

-----------------------------------------------------------------------------
(* The rate limiter: rate_limit_middleware *)

RATE_LIMIT == 100
RATE_WINDOW == 3600

\* [req_time for req_time in request_history[client_ip]
\*  if now - req_time < timedelta(seconds=RATE_WINDOW)]
CleanOld(history, time) ==
    SelectSeq(history, LAMBDA req_time : time - req_time < RATE_WINDOW)

RateLimited_above(history) == Len(history) > RATE_LIMIT

\* len(request_history[client_ip]) >= RATE_LIMIT
RateLimited(history) == Len(history) >= RATE_LIMIT

\* The times at which requests arrive: a first burst, and a second one a
\* second before or exactly when the window of the first one ends.
LimiterTimes == {0, RATE_WINDOW - 1, RATE_WINDOW}

\* The first client sends any number of requests, the others few.
MayArrive(c) ==
    c = "10.0.0.1" \/ Len(limiter.admitted[c]) < MaxOther

\* The middleware on a request of client c, up to call_next: clean the
\* client's history, raise the 429 or record the request.
RateLimitMiddleware(c) ==
    /\ mode = "limiter"
    /\ MayArrive(c)
    /\ LET cleaned == CleanOld(limiter.request_history[c], now)
           limited == RateLimited(cleaned)
       IN  limiter' =
               [request_history |->
                    [limiter.request_history EXCEPT
                        ![c] = IF limited THEN cleaned ELSE Append(cleaned, now)],
                admitted |->
                    [limiter.admitted EXCEPT
                        ![c] = IF limited THEN @ ELSE Append(@, now)],
                last |-> [client |-> c, now |-> now,
                          status_code |-> IF limited THEN 429 ELSE 0,
                          before |-> limiter.request_history]]
    /\ UNCHANGED <<segments, req, ready, tpc, locals, results, done_order, report,
                   calls, model_cache, files_present, now>>
    /\ UNCHANGED gwvars
    /\ UNCHANGED <<load_log, oracle, run, first_report, rpc, upload, upc, response,
                   effects, date_str, parsed, doc, outbound>>

\* datetime.now() moves on, once, between two requests.
LimiterClock ==
    /\ mode = "limiter"
    /\ now = 0
    /\ \E time \in LimiterTimes : time > now /\ now' = time
    /\ UNCHANGED <<segments, req, ready, tpc, locals, results, done_order, report,
                   calls, model_cache, files_present>>
    /\ UNCHANGED gwvars
    /\ UNCHANGED auxvars

LimiterInit ==
    /\ mode = "limiter"
    /\ models = GEMINI_MODELS
    /\ max_retries = DEFAULT_MAX_RETRIES
    /\ gw = [t \in TaskIds |-> IdleFrame]
    /\ trace = [t \in TaskIds |-> <<>>]
    /\ running = 0
    /\ segments = <<>>
    /\ files_present = ModelFiles
    /\ ScoreIdle

LimiterNext == LimiterClock \/ \E c \in Clients : RateLimitMiddleware(c)

SpecLimiter == LimiterInit /\ [][LimiterNext]_vars

-----------------------------------------------------------------------------
(* The gateway called on its own, for any model list and retry count *)

GatewayCall ==
    /\ mode = "gateway"
    /\ running = 0
    /\ gw[1].pc = "idle"
    /\ gw' = [gw EXCEPT ![1] = EnterCall]
    /\ running' = 1
    /\ UNCHANGED <<models, max_retries, trace, mode>>
    /\ UNCHANGED scorevars
    /\ UNCHANGED auxvars

GatewayInit ==
    /\ mode = "gateway"
    /\ models \in ModelLists
    /\ max_retries \in 0..MaxRetries
    /\ gw = [t \in TaskIds |-> IdleFrame]
    /\ trace = [t \in TaskIds |-> <<>>]
    /\ running = 0
    /\ segments = <<>>
    /\ files_present = ModelFiles
    /\ ScoreIdle

GatewayNext ==
    GatewayCall \/ GatewayRequest(1) \/ GatewayAttempt(1) \/ GatewayWake(1)

SpecGateway == GatewayInit /\ [][GatewayNext]_vars

FairSpecGateway == SpecGateway /\ WF_vars(GatewayNext)

-----------------------------------------------------------------------------
(* Claims about the gateway *)

Terminal == {"returned", "returned_none", "raised"}

\* The attempts of the call of coroutine t, oldest first (sleeps left out).
Attempts(t) == SelectSeq(trace[t], LAMBDA e : e.ev # "sleep")

FailedAttempts(t) == SelectSeq(trace[t], LAMBDA e : e.ev = "fail")

\* C1: the identifiers are tried strictly in priority order, max_retries
\* consecutive attempts each; the call returns exactly when an attempt
\* succeeded, that attempt is the last one made, and the text returned is the
\* (fence-stripped) text of that attempt.
C1_FirstSuccessInPriorityOrder ==
    LET A == Attempts(1)
    IN  /\ \A i \in 1..Len(A) :
              /\ A[i].mi = ((i - 1) \div max_retries) + 1
              /\ A[i].attempt = (i - 1) % max_retries
              /\ A[i].mi \in 1..Len(models)
              /\ A[i].ev = "ok" => i = Len(A)
        /\ gw[1].pc = "returned" <=> (Len(A) > 0 /\ A[Len(A)].ev = "ok")
        /\ gw[1].pc = "returned" => gw[1].result = StripFence(A[Len(A)].text)

\* C1 witness: the first identifier failed on all its retries and the second
\* succeeded on its first attempt, whose text is the one returned.
C1_Witness ==
    LET A == Attempts(1)
    IN  /\ max_retries >= 2
        /\ gw[1].pc = "returned"
        /\ Len(A) = max_retries + 1
        /\ models[A[Len(A)].mi] = ModelCatalogue[2]
        /\ A[Len(A)].attempt = 0
        /\ gw[1].result = <<"[", "]">>
        /\ \A i \in 1..max_retries : A[i].ev = "fail" /\ A[i].mi = 1

\* C2: a call in which no attempt succeeded ends by raising the aggregated
\* error that carries the error of the last failed attempt; it never
\* completes normally without a response text.
C2_AllFailedRaises ==
    LET A == Attempts(1)
        F == FailedAttempts(1)
    IN  (gw[1].pc \in Terminal /\ \A i \in 1..Len(A) : A[i].ev # "ok")
            => /\ gw[1].pc = "raised"
               /\ Len(F) > 0
               /\ gw[1].error = F[Len(F)].err

IsSleep(e) == e.ev = "sleep"

\* C3 (safety part): at most |GEMINI_MODELS| * max_retries attempts, and one
\* sleep exactly after each failed attempt that is not the last attempt of
\* its identifier; every sleep is followed by the next attempt on the same
\* identifier.
C3_BackoffPlacement ==
    LET T == trace[1]
    IN  /\ Len(Attempts(1)) <= Len(models) * max_retries
        /\ \A i \in 1..Len(T) :
              /\ IsSleep(T[i]) =>
                    /\ i > 1
                    /\ T[i-1].ev = "fail"
                    /\ T[i-1].mi = T[i].mi /\ T[i-1].attempt = T[i].attempt
                    /\ T[i].attempt < max_retries - 1
                    /\ i < Len(T) =>
                          /\ ~IsSleep(T[i+1])
                          /\ T[i+1].mi = T[i].mi
                          /\ T[i+1].attempt = T[i].attempt + 1
              /\ (T[i].ev = "fail" /\ T[i].attempt < max_retries - 1) =>
                    (i < Len(T) /\ IsSleep(T[i+1]))
              /\ (T[i].ev = "fail" /\ T[i].attempt = max_retries - 1) =>
                    (i = Len(T) \/ ~IsSleep(T[i+1]))
              /\ T[i].ev = "ok" => i = Len(T)
        /\ gw[1].pc = "sleep" => (Len(T) > 0 /\ IsSleep(T[Len(T)]))

\* C3: the call always terminates, within the attempt bound and with the
\* backoff placed as above.
C3_TerminatesWithBoundedBackoff ==
    /\ []C3_BackoffPlacement
    /\ <>(gw[1].pc \in Terminal)

\* C3 witness: a finished call that slept between two attempts on one
\* identifier and moved to the next identifier without sleeping.
C3_Witness ==
    LET T == trace[1]
    IN  /\ gw[1].pc \in Terminal
        /\ \E i \in 1..Len(T) : IsSleep(T[i])
        /\ \E i \in 1..(Len(T) - 1) :
              T[i].ev = "fail" /\ T[i+1].ev # "sleep" /\ T[i+1].mi = T[i].mi + 1

-----------------------------------------------------------------------------
(* Claims about the section scorer and the report aggregator *)

Recognised(t) == t \in 1..Len(segments) /\ segments[t].section \in DOMAIN max_scores

\* A recognised section whose task returned its report.
Scored(t) == Recognised(t) /\ tpc[t] = "done"

\* C4: a segment whose section is not a key of max_scores gets the all-zero
\* "Missing" report, and its task calls neither the regressor, nor the
\* grammar check, nor the suggestion generator, nor the gateway.
C4_UnknownSectionShortCircuits ==
    \A t \in 1..Len(segments) :
        segments[t].section \notin DOMAIN max_scores =>
            /\ calls[t] = [predict |-> 0, grammar |-> 0, suggest |-> 0, gateway |-> 0]
            /\ gw[t].pc = "idle" /\ trace[t] = <<>>
            /\ tpc[t] \in {"none", "ready", "done"}
            /\ tpc[t] = "done" =>
                  results[t] =
                      [section |-> segments[t].section,
                       content_score |-> 0, final_score |-> 0,
                       grammar_errors |-> [minor |-> 0, severe |-> 0],
                       grammar_errors_detailed |-> <<>>,
                       suggestions |-> [kind |-> "list", items |-> <<>>],
                       quality |-> "Missing"]

\* C4 witness: the task of an unrecognised section with a non-blank text has
\* returned.
C4_Witness ==
    \E t \in 1..Len(segments) :
        /\ segments[t].section = "References"
        /\ segments[t].text = RichText
        /\ tpc[t] = "done"
        /\ results[t].quality = "Missing"

\* C5: for a recognised section content_score = normalized_score * max_score,
\* penalty = 0.2 * minor + 0.5 * severe, final_score = max(0, content_score -
\* penalty); the final score is never negative and never above the content
\* score, also as reported; content 10.0 with 2 minor and 1 severe error on a
\* 15-point section gives 9.1 and "Weak".
C5_FinalScoreFormula ==
    \A t \in 1..Len(segments) :
        Scored(t) =>
            LET L == locals[t]
                R == results[t]
                m == max_scores[segments[t].section]
            IN  /\ L.normalized_score \in 0..Point
                /\ L.content_score = L.normalized_score * m
                /\ L.penalty = 2000 * R.grammar_errors.minor
                               + 5000 * R.grammar_errors.severe
                /\ L.final_score = IF L.content_score - L.penalty > 0
                                   THEN L.content_score - L.penalty ELSE 0
                /\ 0 <= L.final_score /\ L.final_score <= L.content_score
                /\ 0 <= R.final_score /\ R.final_score <= R.content_score
                /\ (/\ m = 15
                    /\ R.content_score = 10 * Point
                    /\ R.grammar_errors = [minor |-> 2, severe |-> 1])
                      => (R.final_score = 91000 /\ R.quality = "Weak")

\* C5 witness: the worked example.
C5_Witness ==
    \E t \in 1..Len(segments) :
        /\ Scored(t)
        /\ segments[t].section = "Skills"
        /\ results[t].content_score = 10 * Point
        /\ results[t].grammar_errors = [minor |-> 2, severe |-> 1]
        /\ results[t].final_score = 91000
        /\ results[t].quality = "Weak"

\* C6: in the report of a recognised section, quality is "Missing" if and
\* only if the reported final_score is 0.
C6_MissingIffZero ==
    \A t \in 1..Len(segments) :
        Scored(t) => (results[t].quality = "Missing" <=> results[t].final_score = 0)

\* C7 as claimed: the label agrees with the reported (rounded) final_score.
C7_LabelFromReportedScore ==
    \A t \in 1..Len(segments) :
        Scored(t) =>
            LET R == results[t]
                threshold == max_scores[segments[t].section] * 7500
            IN  /\ R.quality = "Good" <=> R.final_score >= threshold
                /\ R.quality = "Weak" <=> (0 < R.final_score /\ R.final_score < threshold)
                /\ R.quality \in {"Good", "Weak", "Missing"}

\* C7 as amended: the label agrees with the final_score before rounding
\* ("Good" exactly from 0.75 * max_score up, "Weak" exactly strictly between
\* 0 and that, otherwise "Missing"), and the reported final_score is that
\* value rounded to the nearest 1/100.
C7_LabelFromUnroundedScore ==
    \A t \in 1..Len(segments) :
        Scored(t) =>
            LET R == results[t]
                final == locals[t].final_score
                threshold == max_scores[segments[t].section] * 7500
            IN  /\ R.quality = "Good" <=> final >= threshold
                /\ R.quality = "Weak" <=> (0 < final /\ final < threshold)
                /\ R.quality = "Missing" <=> (final <= 0 /\ final < threshold)
                /\ R.quality \in {"Good", "Weak", "Missing"}
                /\ R.final_score % 100 = 0
                /\ R.final_score - final \in (0 - 50)..50

\* C7 witness: a report labelled "Weak" whose reported final_score reaches
\* the "Good" threshold.
C7_Witness ==
    \E t \in 1..Len(segments) :
        /\ Scored(t)
        /\ results[t].quality = "Weak"
        /\ locals[t].final_score < max_scores[segments[t].section] * 7500
        /\ results[t].final_score >= max_scores[segments[t].section] * 7500

MinorObjects == {ErrGrammar, ErrGrammarCap, ErrVocabularyUp}
SevereObjects == {ErrSyntaxCap}

\* The object literals of a reply text, in order.
ObjectsOf(text) == SelectSeq(text, LAMBDA c : c \in ObjectTokens)

\* C8: minor counts exactly the errors whose type is "grammar" or
\* "vocabulary" in any letter case, severe exactly those whose type is
\* "syntax"; any other type counts in neither, so minor + severe is at most
\* the number of detailed errors, and the detailed list holds every error of
\* the reply.
C8_ErrorClassification ==
    \A t \in 1..Len(segments) :
        Scored(t) =>
            LET R == results[t]
                D == R.grammar_errors_detailed
            IN  /\ R.grammar_errors.minor =
                      Cardinality({ i \in 1..Len(D) : D[i] \in MinorObjects })
                /\ R.grammar_errors.severe =
                      Cardinality({ i \in 1..Len(D) : D[i] \in SevereObjects })
                /\ R.grammar_errors.minor + R.grammar_errors.severe <= Len(D)
                /\ locals[t].grammar_call = "returned" =>
                      D = ObjectsOf(locals[t].grammar_text)

\* C8 witness: a reply with a capitalised grammar error, an upper-case
\* vocabulary error, a capitalised syntax error and a style error.
C8_Witness ==
    \E t \in 1..Len(segments) :
        /\ Scored(t)
        /\ results[t].grammar_errors_detailed =
              <<ErrGrammarCap, ErrVocabularyUp, ErrSyntaxCap, ErrStyle>>
        /\ results[t].grammar_errors = [minor |-> 2, severe |-> 1]

\* The gateway call behind a helper failed on all models, or returned a text
\* that is not JSON.
Degraded(call, text) ==
    call = "raised" \/ (call = "returned" /\ JsonLoads(text).kind = "invalid")

\* C9: a grammar check whose gateway call failed or whose reply is not JSON
\* yields [], so the section is still scored with minor = severe = 0 and
\* final_score = content_score; a suggestion call that fails so yields an
\* empty suggestion list; such a section never fails its task, and the
\* report is then built from every section.
C9_HelpersDegradeToEmptyList ==
    /\ \A t \in 1..Len(segments) :
          /\ (Recognised(t) /\ Degraded(locals[t].grammar_call, locals[t].grammar_text))
                => /\ tpc[t] \in {"suggest", "done"}
                   /\ locals[t].errors = <<>>
                   /\ locals[t].minor = 0 /\ locals[t].severe = 0
                   /\ tpc[t] = "done" =>
                         /\ results[t].grammar_errors = [minor |-> 0, severe |-> 0]
                         /\ results[t].grammar_errors_detailed = <<>>
                         /\ results[t].final_score = results[t].content_score
          /\ (Recognised(t) /\ Degraded(locals[t].suggest_call, locals[t].suggest_text))
                => /\ tpc[t] = "done"
                   /\ results[t].suggestions = [kind |-> "list", items |-> <<>>]
    /\ req = "error" =>
          \/ ~load_log[1].ok
          \/ \E t \in 1..Len(segments) :
                /\ tpc[t] = "failed"
                /\ ~Degraded(locals[t].grammar_call, locals[t].grammar_text)
    /\ req = "done" =>
          /\ report.status = "ok"
          /\ Len(report.sections) = Len(segments)

\* C9 witness: a report built from a section whose grammar call failed on
\* all models and whose suggestion reply was not JSON.
C9_Witness ==
    /\ req = "done"
    /\ report.status = "ok"
    /\ locals[1].grammar_call = "raised"
    /\ locals[1].suggest_call = "returned" /\ locals[1].suggest_text = Prose
    /\ report.sections[1].suggestions = [kind |-> "list", items |-> <<>>]
    /\ report.sections[1].content_score > 0
    /\ report.sections[1].final_score = report.sections[1].content_score

\* C10: the report exists only once every section task has returned, and
\* its sections array has one entry per segment, the i-th being the report
\* the task of the i-th segment returned, whatever the completion order.
C10_SectionsInInputOrder ==
    /\ req = "done" =>
          /\ \A t \in 1..Len(segments) : tpc[t] = "done"
          /\ Len(report.sections) = Len(segments)
          /\ \A i \in 1..Len(segments) :
                /\ report.sections[i] = results[i]
                /\ report.sections[i].section = segments[i].section
    /\ req # "done" => report.sections = <<>>

\* C10 witness: the second task completed before the first, and their
\* reports differ.
C10_Witness ==
    /\ req = "done"
    /\ done_order = <<2, 1>>
    /\ results[1] # results[2]
    /\ report.sections = <<results[1], results[2]>>

\* Sum of the first n entries of f.
RECURSIVE C11_Sum(_, _)
C11_Sum(f, n) == IF n = 0 THEN 0 ELSE f[n] + C11_Sum(f, n - 1)

\* C11: the positive budgets of max_scores sum to 100; in every report the
\* two totals are the sums of the sections' reported content_score and
\* final_score, the two scores on the 100-point scale equal those totals, and
\* total_grammar_errors is the sum of minor + severe over the sections.
C11_TotalsAreSums ==
    /\ total_max_score = 100
    /\ req = "done" =>
          LET n == Len(segments)
              content == C11_Sum([i \in 1..n |-> results[i].content_score], n)
              final == C11_Sum([i \in 1..n |-> results[i].final_score], n)
              errors == C11_Sum([i \in 1..n |-> results[i].grammar_errors.minor
                                              + results[i].grammar_errors.severe], n)
          IN  /\ report.total_content_score = content
              /\ report.total_final_score = final
              /\ report.content_score_100 = report.total_content_score
              /\ report.final_score_100 = report.total_final_score
              /\ report.total_grammar_errors = errors

\* C11 witness: a report over two scored sections, 7.5 and 7.3 points each,
\* with one grammar error each.
C11_Witness ==
    /\ req = "done"
    /\ Len(segments) = 2
    /\ report.sections[1].content_score = 75000
    /\ report.sections[2].final_score = 73000
    /\ report.total_content_score = 150000
    /\ report.total_final_score = 146000
    /\ report.final_score_100 = 146000
    /\ report.total_grammar_errors = 2

\* C12: once the task of any section has raised, score_segments can only end
\* with the "Failed to score CV" error (500), which carries no section report;
\* a report is returned only when every task returned, and then it holds the
\* report of every segment.
C12_SectionFailureAbortsReport ==
    /\ (\E t \in 1..Len(segments) : tpc[t] = "failed") =>
          /\ req \in {"gathering", "error"}
          /\ report.sections = <<>>
          /\ report.status \in {"none", "500"}
    /\ req = "error" =>
          /\ report.status = "500"
          /\ report.detail = "Failed to score CV"
          /\ report.sections = <<>>
    /\ report.status = "ok" =>
          /\ req = "done"
          /\ Len(report.sections) = Len(segments)
          /\ \A t \in 1..Len(segments) : tpc[t] = "done"

\* C12 witness: one section returned its report, another raised, and the
\* request ended with the 500.
C12_Witness ==
    /\ req = "error"
    /\ report.status = "500"
    /\ \E t, u \in 1..Len(segments) :
          /\ Scored(t) /\ results[t].content_score > 0
          /\ tpc[u] = "failed"

\* The request of section task t to the remote model is out and its reply
\* is not there yet.
InFlight(t) == t \in 1..Len(segments) /\ gw[t].pc = "calling"

\* Two or more recognised sections with a non-blank text are being scored.
C13_FanOutInput ==
    \E t, u \in 1..Len(segments) :
        /\ t # u
        /\ Recognised(t) /\ ~IsBlank(segments[t].text)
        /\ Recognised(u) /\ ~IsBlank(segments[u].text)

\* What the code does instead: the task that sent a request is the one the
\* event loop is running, so at most one request is in flight; any other
\* task that is inside its gateway call is in the sleep after a failed
\* attempt.
C13_RequestsNeverOverlap ==
    \A t, u \in 1..Len(segments) :
        /\ InFlight(t) => running = t
        /\ (InFlight(t) /\ u # t) => gw[u].pc \in {"idle", "sleep"}

\* C13: scoring two or more recognised sections with non-blank texts gets,
\* unless the request fails, to a state in which two different section tasks
\* have a request to the remote model in flight at once.
C13_TwoCallsInFlight ==
    C13_FanOutInput =>
        <>(\/ req = "error"
           \/ \E t, u \in 1..Len(segments) : t # u /\ InFlight(t) /\ InFlight(u))

\* C14: the second of two score_segments calls on the same segments, with
\* the regressor and the remote model answering as before, ends as the first
\* did: with the same report, field by field, or with the same error,
\* whatever the order in which the section tasks ran and completed and
\* whether the cached artifacts were reused or loaded again.
C14_SecondRunSameReport ==
    (run = 2 /\ req \in {"done", "error"}) => report = first_report

\* C14 witness: a second run that loaded the artifacts again and in which
\* the second section completed before the first, with the report of the
\* first run.
C14_Witness ==
    /\ run = 2
    /\ req = "done"
    /\ report = first_report
    /\ report.total_final_score > 0
    /\ done_order = <<2, 1>>
    /\ Len(load_log) = 2
    /\ load_log[2].disk = "read"

-----------------------------------------------------------------------------
(* Claims about the model cache *)

\* The call found artifacts in the cache, loaded Age(e) seconds before.
Warm(e) == e.before.model # "None"
Age(e) == e.time - e.before.last_loaded

\* C15 as claimed: a call less than 3600 s after the load that filled the
\* cache returns the cached artifacts, touching neither the files nor
\* last_loaded; a call 3600 s or more after it reloads the artifacts from
\* disk and sets last_loaded to its own time.
C15_ExpiredCallReloads ==
    \A i \in 1..Len(load_log) :
        LET e == load_log[i]
        IN  Warm(e) =>
               /\ Age(e) < 3600 =>
                     (e.ok /\ e.disk = "untouched" /\ e.after = e.before)
               /\ Age(e) >= 3600 =>
                     (e.ok /\ e.disk = "read" /\ e.after.last_loaded = e.time)

\* C15 as amended: within 3600 s the call returns the cached artifacts,
\* touching neither the files nor last_loaded; from 3600 s on the call never
\* serves the cache: it goes to the files and, when they are all there and
\* load, stores the artifacts with last_loaded set to its own time; when a
\* file is missing or the load throws it fails and leaves the cache as it
\* was.
C15_CacheReuseAndExpiry ==
    \A i \in 1..Len(load_log) :
        LET e == load_log[i]
        IN  Warm(e) =>
               /\ Age(e) < 3600 =>
                     (e.ok /\ e.disk = "untouched" /\ e.after = e.before)
               /\ Age(e) >= 3600 =>
                     /\ e.disk # "untouched"
                     /\ e.ok => /\ e.complete
                                /\ e.disk = "read"
                                /\ e.after = [model |-> "artifacts", last_loaded |-> e.time]
                     /\ ~e.ok => e.after = e.before
                     /\ ~e.complete => (~e.ok /\ e.disk = "checked")

\* C15 witness: a call 3599 s after the load reused the cache and the next
\* call, at 3600 s, loaded again.
C15_Witness ==
    /\ Len(load_log) = 2
    /\ Warm(load_log[1]) /\ Age(load_log[1]) = 3599
    /\ load_log[1].disk = "untouched"
    /\ load_log[1].after = load_log[1].before
    /\ Warm(load_log[2]) /\ Age(load_log[2]) = 3600
    /\ load_log[2].ok /\ load_log[2].disk = "read"
    /\ model_cache.last_loaded = load_log[2].time

\* The request did nothing beyond the failed load.
NothingScored ==
    /\ req = "error"
    /\ report.status = "500"
    /\ \A t \in TaskIds :
          /\ tpc[t] = "none"
          /\ calls[t] = [predict |-> 0, grammar |-> 0, suggest |-> 0, gateway |-> 0]
          /\ gw[t].pc = "idle"

\* C16 as claimed: a load_models call made while a file is missing fails
\* with the missing-files error, nothing is scored and no helper is called,
\* and the cache is unchanged.
C16_MissingFileAlwaysFails ==
    \A i \in 1..Len(load_log) :
        LET e == load_log[i]
        IN  ~e.complete =>
               /\ ~e.ok /\ e.detail = "Model files not found"
               /\ e.after = e.before /\ model_cache = e.before
               /\ NothingScored

\* C16 as amended: that holds for a call that finds the cache empty or
\* expired; a call that finds artifacts younger than 3600 s never looks at
\* the files and returns the cached artifacts.
C16_MissingFileFailsUnlessCached ==
    \A i \in 1..Len(load_log) :
        LET e == load_log[i]
        IN  ~e.complete =>
               IF Warm(e) /\ Age(e) < 3600
               THEN /\ e.ok /\ e.disk = "untouched"
                    /\ \A t \in 1..Len(segments) : tpc[t] # "none"
               ELSE /\ ~e.ok /\ e.detail = "Model files not found"
                    /\ e.disk = "checked"
                    /\ e.after = e.before /\ model_cache = e.before
                    /\ NothingScored

\* C16 witness: a request with a recognised non-blank section found the
\* cache expired and a file missing, and ended with the 500.
C16_Witness ==
    /\ Len(load_log) = 1
    /\ ~load_log[1].complete
    /\ Warm(load_log[1]) /\ Age(load_log[1]) >= 3600
    /\ load_log[1].detail = "Model files not found"
    /\ model_cache = [model |-> "artifacts", last_loaded |-> 0]
    /\ NothingScored
    /\ Len(segments) = 2 /\ Recognised(1) /\ ~IsBlank(segments[1].text)

\* The call read the artifacts from disk although artifacts younger than
\* 3600 s were in the cache.
Redundant(e) == e.ok /\ e.disk = "read" /\ Warm(e) /\ Age(e) < 3600

\* C17 as claimed: with concurrent requests, some run gets to a redundant
\* load of the artifacts.
C17_RedundantLoadReachable ==
    <>(\E i \in 1..Len(load_log) : Redundant(load_log[i]))

\* C17 as amended: load_models has no suspension point between its cache
\* check and its store, so no request ever sees the cache between the two:
\* the cache always is what the latest call left, every call sees what the
\* call before it left, and no call reads the artifacts while artifacts
\* younger than 3600 s are cached, however the requests overlap.
C17_NoRedundantLoad ==
    /\ \A i \in 1..Len(load_log) : ~Redundant(load_log[i])
    /\ \A i \in 1..(Len(load_log) - 1) :
          /\ load_log[i+1].before = load_log[i].after
          /\ (/\ load_log[i].ok /\ load_log[i].disk = "read"
              /\ load_log[i+1].ok /\ load_log[i+1].disk = "read")
                => load_log[i+1].time - load_log[i].time >= 3600
    /\ load_log # <<>> => model_cache = load_log[Len(load_log)].after

\* C17 witness: two requests came at the same instant to an empty cache and
\* are both waiting for their section tasks; the first read the artifacts,
\* the second got them from the cache.
C17_Witness ==
    /\ \A r \in {1, 2} : rpc[r] = "gathering"
    /\ Len(load_log) = 2
    /\ ~Warm(load_log[1])
    /\ load_log[1].disk = "read"
    /\ load_log[2].time = load_log[1].time
    /\ load_log[2].disk = "untouched"

-----------------------------------------------------------------------------
(* Upload validation and extraction failures *)

\* C18: an upload to the score endpoint or to the document-processing
\* endpoint whose extension, lower-cased, is not .pdf, .doc or .docx is
\* answered 400 before any processing: at no point of the request has an
\* extractor, the gateway or the model loader been invoked, and the
\* response, once there, is the 400 of the extension check.
C18_UnsupportedExtensionRejected ==
    LowerSeq(SplitExt(upload.filename)) \notin
        { <<".", "p", "d", "f">>, <<".", "d", "o", "c">>,
          <<".", "d", "o", "c", "x">> } =>
        /\ effects = {}
        /\ upc \in {"idle", "done"}
        /\ upc = "done" =>
              /\ response.status = 400
              /\ response.detail = InvalidFileType.detail
              /\ response.body = ""

\* C18 witness: a file named like a PDF but without a real extension
\* (".pdf", "pdf", "c.pdf/v") or with another last extension was answered.
C18_Witness ==
    /\ upc = "done"
    /\ upload.filename \in { <<".", "p", "d", "f">>,
                             <<"c", "v", ".", "p", "d", "f", ".", "e", "x", "e">> }
    /\ response.status = 400
    /\ effects = {}

ExtractionFailed ==
    \E e \in effects : /\ e.op \in {"extract_text_from_pdf", "extract_text_from_doc"}
                       /\ e.raised # NoException

ExtractorError ==
    (CHOOSE e \in effects : e.op \in {"extract_text_from_pdf",
                                      "extract_text_from_doc"}).raised

\* C19 as claimed: when extraction fails on a malformed upload the score
\* endpoint answers with the extractor's client error, status 400 and its
\* detail, and neither segmentation nor scoring is attempted.
C19_ExtractionFailureIs400 ==
    (upload.endpoint = "score" /\ upc = "done" /\ ExtractionFailed) =>
        /\ response.status = 400
        /\ response.detail = ExtractorError.detail
        /\ { e.op : e \in effects } \cap {"segment_cv_gemini", "score_segments"} = {}

\* C19, what the code does: the extractor's HTTPException is caught by the
\* endpoint's except Exception and answered as a 500 whose detail is
\* str(e); segmentation and scoring are indeed not attempted.
C19_ExtractionFailureIs500 ==
    (upload.endpoint = "score" /\ upc = "done" /\ ExtractionFailed) =>
        /\ response.status = 500
        /\ response.detail \in StrHTTPException(ExtractorError)
        /\ { e.op : e \in effects } \cap {"segment_cv_gemini", "score_segments"} = {}

\* C19 witness: a malformed file named cv.pdf was answered after the PDF
\* extractor raised its 400.
C19_Witness ==
    /\ upload.endpoint = "score"
    /\ upc = "done"
    /\ upload.content = "malformed"
    /\ Effect("extract_text_from_pdf", InvalidPdf) \in effects

-----------------------------------------------------------------------------
(* Date parsing *)

\* The patterns in the order of the specification: ISO date,
\* day/month/year, month/day/year, "Month Year", bare year.
C20_Patterns == <<"%Y-%m-%d", "%d/%m/%Y", "%m/%d/%Y", "%B %Y", "%Y">>

C20_Stripped == PyStrip(date_str, {" ", NL})

C20_Matching ==
    IF date_str = NoneValue THEN {}
    ELSE { i \in 1..5 : Strptime(C20_Stripped, C20_Patterns[i]).exc = "" }

\* C20: parse_date never raises, whatever its argument (a matching string,
\* a non-matching one, the empty string, None): it returns the date read
\* by the first of the patterns, in the order ISO date, day/month/year,
\* month/day/year, "Month Year", bare year, that matches the stripped
\* input, and the current timestamp when none matches.
C20_FirstMatchingPatternOrNow ==
    parsed # NoDate =>
        /\ parsed.kind \in {"date", "now"}
        /\ IF C20_Matching = {}
           THEN parsed = CurrentTime
           ELSE LET first == CHOOSE i \in C20_Matching :
                                \A j \in C20_Matching : i <= j
                    r == Strptime(C20_Stripped, C20_Patterns[first])
                IN  parsed = [kind |-> "date", y |-> r.y, m |-> r.m, d |-> r.d]

\* C20 witness: 1/02/2020, valid both as day/month/year and as
\* month/day/year, was read as the first of February.
C20_Witness ==
    /\ date_str = <<"1", "/", "0", "2", "/", "2", "0", "2", "0">>
    /\ parsed = [kind |-> "date", y |-> 2020, m |-> 2, d |-> 1]

-----------------------------------------------------------------------------
(* Document helpers *)

\* C21: process_date_and_ongoing returns (None, is_ongoing = True) for every
\* end date that is "present", "current" or "ongoing" in any letter case,
\* and in every result the date is None exactly when is_ongoing is true.
C21_OngoingWordsGiveNullDate ==
    (doc.op = "process_date_and_ongoing" /\ doc.called) =>
        /\ doc.arg \in { <<"p", "r", "e", "s", "e", "n", "t">>,
                      <<"P", "r", "e", "s", "e", "n", "t">>,
                      <<"P", "R", "E", "S", "E", "N", "T">>,
                      <<"c", "u", "r", "r", "e", "n", "t">>,
                      <<"C", "u", "r", "r", "e", "n", "t">>,
                      <<"C", "U", "R", "R", "E", "N", "T">>,
                      <<"o", "n", "g", "o", "i", "n", "g">>,
                      <<"O", "n", "g", "o", "i", "n", "g">>,
                      <<"O", "n", "G", "o", "i", "n", "g">> }
              => doc.result = [date |-> NoDate, is_ongoing |-> TRUE]
        /\ (doc.result.date = NoDate) <=> doc.result.is_ongoing

\* C21 witness: the end date "OnGoing" was mapped to (None, True).
C21_Witness ==
    /\ doc.op = "process_date_and_ongoing"
    /\ doc.called
    /\ doc.arg = <<"O", "n", "G", "o", "i", "n", "g">>
    /\ doc.result.is_ongoing

PromptShaped ==
    \A l \in DOMAIN doc.arg : \A j \in 1..Len(doc.arg[l]) :
        DOMAIN doc.arg[l][j] \subseteq {"start_date", "end_date", "issued_date"}

\* C22 as claimed: for every parser result that has the structure the
\* structuring prompt asks for (fields start_date, end_date, issued_date),
\* its lists empty or not, process_document completes and returns the
\* record.
C22_PromptShapedResultIsProcessed ==
    (doc.op = "process_document" /\ doc.called /\ PromptShaped) =>
        doc.result.status = 200

\* C22, what the code does: a prompt-shaped result is processed only when
\* all its dated lists are empty; otherwise the first non-empty list raises
\* KeyError on startDate or issuedDate and the request ends as a 500.
C22_PromptShapedResultRaisesKeyError ==
    (doc.op = "process_document" /\ doc.called /\ PromptShaped) =>
        IF \A l \in DOMAIN doc.arg : doc.arg[l] = <<>>
        THEN doc.result.status = 200
        ELSE /\ doc.result.status = 500
             /\ doc.result.detail \in {"'startDate'", "'issuedDate'"}

\* C22 witness: a result with one education entry {start_date, end_date}
\* and nothing else was processed.
C22_Witness ==
    /\ doc.op = "process_document"
    /\ doc.called
    /\ PromptShaped
    /\ Len(doc.arg["education"]) = 1
    /\ \A l \in DOMAIN doc.arg : l # "education" => doc.arg[l] = <<>>

\* The result the specification describes for a link: the link as given,
\* and the icon of the table entry whose domain is the link's domain (the
\* lower-cased link without scheme and www., up to the first of / ? # :),
\* None when there is no such entry.
C23_Claimed(link) ==
    LET clean == CleanLink(link)
        stop  == { i \in 1..Len(clean) : clean[i] \in {"/", "?", "#", ":"} }
        host  == IF stop = {} THEN clean
                 ELSE SubSeq(clean, 1, (CHOOSE i \in stop : \A j \in stop : i <= j) - 1)
        hits  == { i \in 1..Len(social_icons) : social_icons[i][1] = host }
    IN  IF link = <<>> THEN [icon |-> "None", link |-> <<"None">>]
        ELSE IF hits = {} THEN [icon |-> "None", link |-> link]
        ELSE [icon |-> social_icons[CHOOSE i \in hits : TRUE][2], link |-> link]

\* C23 as claimed: for every non-empty link get_social_info returns the
\* link as given and the icon of the link's domain, None when the domain
\* is not one of the table's.
C23_IconIsTableEntryOfDomain ==
    (doc.op = "get_social_info" /\ doc.called /\ doc.arg # <<>>) =>
        doc.result = C23_Claimed(doc.arg)

\* C23, the part that holds: the link is returned as given, and a link
\* whose domain is in the table never gets the icon None.
C23_LinkKept ==
    (doc.op = "get_social_info" /\ doc.called /\ doc.arg # <<>>) =>
        /\ doc.result.link = doc.arg
        /\ C23_Claimed(doc.arg).icon # "None" => doc.result.icon # "None"

\* C23 witness: the link https://example.com/?ref=github.com, whose domain
\* is not in the table, was given the icon github.
C23_Witness ==
    /\ doc.op = "get_social_info"
    /\ doc.called
    /\ doc.arg = <<"h", "t", "t", "p", "s", ":", "/", "/", "e", "x", "a", "m", "p", "l", "e", ".", "c", "o", "m", "/", "?", "r", "e", "f", "=", "g", "i", "t", "h", "u", "b", ".", "c", "o", "m">>
    /\ doc.result.icon = "github"

\* The lines of the converted text that start with the marker "- " or "* ".
C27_BulletLines ==
    { i \in 1..(Len(doc.arg) - 1) :
        /\ i = 1 \/ doc.arg[i - 1] = NL
        /\ doc.arg[i] \in {"-", "*"}
        /\ doc.arg[i + 1] = " " }

C27_Count(token) == Cardinality({ i \in 1..Len(doc.result) : doc.result[i] = token })

\* C27 as claimed: convert_to_html turns every line that starts with "- "
\* or "* " into a list item, whichever line of the text it is on, and None
\* or the empty text into the empty string: the result holds one list item
\* for each such line.
C27_EveryBulletLineIsAnItem ==
    (doc.op = "convert_to_html" /\ doc.called) =>
        /\ doc.arg \in {NoneValue, <<>>} => doc.result = <<>>
        /\ doc.arg # NoneValue => C27_Count("<li>") = Cardinality(C27_BulletLines)

\* C27, what the code does: the newlines are replaced by line breaks
\* before the bullet pattern is applied, so the pattern sees one line: the
\* result holds a list item, one, holding the whole rest of the text,
\* exactly when the text itself begins with a bullet, and one line break
\* for every newline.
C27_OnlyLeadingBulletIsAnItem ==
    (doc.op = "convert_to_html" /\ doc.called /\ doc.arg # NoneValue) =>
        LET first == { i \in 1..Len(doc.arg) : doc.arg[i] # " " }
            leading == /\ first # {}
                       /\ doc.arg[CHOOSE i \in first : \A j \in first : i <= j]
                             \in {"-", "*"}
        IN  /\ C27_Count("<li>") = IF leading THEN 1 ELSE 0
            /\ C27_Count("<ul>") = C27_Count("<li>")
            /\ leading => /\ doc.result[1] = "<ul>"
                          /\ doc.result[Len(doc.result)] = "</ul>"
            /\ C27_Count(NL) = 0
            /\ C27_Count("<br>")
                  = Cardinality({ i \in 1..Len(doc.arg) : doc.arg[i] = NL })

\* C27 witness: the text "a", newline, "- a" was converted and its second
\* line is not a list item.
C27_Witness ==
    /\ doc.op = "convert_to_html"
    /\ doc.called
    /\ doc.arg = <<"a", NL, "-", " ", "a">>
    /\ doc.result = <<"a", "<br>", "-", " ", "a">>

-----------------------------------------------------------------------------
(* Fence removal *)

\* The text without a wrapping code fence: the opening fence line
\* (three backquotes, json, newline) and the closing fence (three
\* backquotes, with the newline before them) removed when both are there,
\* the text itself otherwise.
C25_Unfenced(text) ==
    LET open  == <<BQ, BQ, BQ, "j", "s", "o", "n", NL>>
        close == <<NL, BQ, BQ, BQ>>
        n     == Len(text)
    IN  IF /\ n >= Len(open) + Len(close)
           /\ SubSeq(text, 1, Len(open)) = open
           /\ SubSeq(text, n - Len(close) + 1, n) = close
        THEN SubSeq(text, Len(open) + 1, n - Len(close))
        ELSE text

\* C25 as claimed: on a successful attempt the gateway returns the response
\* text with only a wrapping code fence removed; every other character is
\* kept, so a response without a fence is returned unchanged.
C25_OnlyFenceRemoved ==
    gw[1].pc = "returned" =>
        LET A == Attempts(1)
        IN  gw[1].result = C25_Unfenced(A[Len(A)].text)

\* C25, what the code does: strip takes a set of characters, so the gateway
\* removes from both ends of the response every backquote, j, s, o, n and
\* newline, fence or not; what it returns is a piece of the response that
\* neither begins nor ends with one of these characters.
C25_EndCharactersStripped ==
    gw[1].pc = "returned" =>
        LET A == Attempts(1)
            text == A[Len(A)].text
            r == gw[1].result
        IN  /\ \E i \in 1..(Len(text) + 1) : \E j \in 0..Len(text) :
                  /\ r = SubSeq(text, i, j)
                  /\ \A k \in (1..(i - 1)) \cup ((j + 1)..Len(text)) :
                        text[k] \in FenceChars1
            /\ r # <<>> => r[1] \notin FenceChars1 /\ r[Len(r)] \notin FenceChars1

\* C25 witness: the model answered null, without a fence, and the gateway
\* returned ull.
C25_Witness ==
    LET A == Attempts(1)
    IN  /\ gw[1].pc = "returned"
        /\ A[Len(A)].text = <<"n", "u", "l", "l">>
        /\ gw[1].result = <<"u", "l", "l">>

\* C24: every SectionReport carries at most 3 suggestions, whatever list the
\* language model returns for the suggestion call.
C24_AtMostThreeSuggestions ==
    \A t \in 1..Len(segments) :
        tpc[t] = "done" => Len(results[t].suggestions.items) <= 3

\* C24, what the code does: the report carries the value the suggestion
\* reply decodes to, of any length, and [] when the call fails, when the
\* reply is not JSON or when the text is blank.
C24_SuggestionsAreTheDecodedReply ==
    \A t \in 1..Len(segments) :
        Scored(t) =>
            results[t].suggestions =
                IF locals[t].suggest_call = "returned"
                   /\ JsonLoads(locals[t].suggest_text).kind # "invalid"
                THEN JsonLoads(locals[t].suggest_text)
                ELSE JsonList(<<>>)

\* C24 witness: the suggestion reply was a list of four objects and the
\* section's report carries all four.
C24_Witness ==
    \E t \in 1..Len(segments) :
        /\ Scored(t)
        /\ locals[t].suggest_call = "returned"
        /\ Len(JsonLoads(locals[t].suggest_text).items) = 4
        /\ Len(results[t].suggestions.items) = 4

\* The grammar-check call of task t returned a text that parses as JSON.
GrammarReplyIsJson(t) ==
    /\ Recognised(t)
    /\ locals[t].grammar_call = "returned"
    /\ JsonLoads(locals[t].grammar_text).kind # "invalid"

\* C29: whatever JSON text the grammar-check call returns (a list of error
\* objects, a list with entries that have no "type" or are not objects, a
\* value that is not a list), process_section completes with a SectionReport
\* and the aggregation is not aborted.
C29_JsonGrammarReplyNeverAborts ==
    \A t \in 1..Len(segments) :
        GrammarReplyIsJson(t) =>
            /\ tpc[t] # "failed"
            /\ locals[t].exception = ""

\* C29, what the code does: the task fails exactly when the decoded value is
\* not a list or has an entry for which e["type"] raises, and then the
\* request ends with the 500 "Failed to score CV" and no report.
C29_MalformedGrammarReplyAborts ==
    /\ \A t \in 1..Len(segments) :
          GrammarReplyIsJson(t) =>
              /\ tpc[t] = "failed"
                    <=> CountingRaises(JsonLoads(locals[t].grammar_text)) # ""
              /\ tpc[t] = "failed" =>
                    /\ locals[t].exception \in {"KeyError", "TypeError"}
                    /\ req \in {"gathering", "error"}
    /\ (req = "error" /\ SomeFailed) => report = FailureReport("Failed to score CV")

\* C29 witness: the grammar reply was a JSON list whose only entry has no
\* "type", and the request ended with the 500.
C29_Witness ==
    /\ req = "error"
    /\ GrammarReplyIsJson(1)
    /\ locals[1].grammar_text = <<"[", ErrNoType, "]">>
    /\ locals[1].exception = "KeyError"
    /\ tpc[1] = "failed"
    /\ report.status = "500"

-----------------------------------------------------------------------------
(* Calls sent to the language model by one scoring request *)

\* The gateway calls of the request so far: the one of segment_cv_gemini and
\* those of the section tasks.
GatewayCalls ==
    outbound.segment + SumSeq([t \in 1..MaxSegs |-> calls[t].gateway])

\* C26: nothing above the gateway retries: segment_cv_gemini invokes the
\* gateway exactly once, check_grammar_gemini and get_suggestions_gemini at
\* most once each per segment, so a request with n segments makes at most
\* 1 + 2n gateway calls and at most (1 + 2n) * |GEMINI_MODELS| * max_retries
\* calls of generate_content.
C26_NoRetriesAboveGateway ==
    LET n == Len(segments)
    IN  /\ outbound.segment = 1 \/ (outbound.segment = 0 /\ running = 0 /\ GatewayCalls = 0)
        /\ \A t \in TaskIds :
              /\ calls[t].grammar <= 1
              /\ calls[t].suggest <= 1
              /\ calls[t].gateway <= calls[t].grammar + calls[t].suggest
              /\ t > n => calls[t].gateway = 0
        /\ GatewayCalls <= 1 + 2 * n
        /\ outbound.attempts <= GatewayCalls * Len(models) * max_retries
        /\ outbound.attempts <= (1 + 2 * n) * Len(GEMINI_MODELS) * max_retries

\* C26 witness: a request with two segments ended after 5 gateway calls,
\* each of which went through all its attempts.
C26_Witness ==
    /\ req = "done"
    /\ Len(segments) = 2
    /\ GatewayCalls = 5
    /\ outbound.attempts = 5 * Len(GEMINI_MODELS) * max_retries

-----------------------------------------------------------------------------
(* The scores out of 100 *)

\* The budgets of the segments with a recognised section, one per segment.
Budgets ==
    [i \in 1..Len(segments) |->
        IF segments[i].section \in DOMAIN max_scores
        THEN max_scores[segments[i].section] ELSE 0]

\* C28: for every list of segments, of any length and with section names
\* possibly repeated, 0 <= final_score_100 <= content_score_100 <= 100.
C28_ScoresWithinHundred ==
    req = "done" =>
        /\ 0 <= report.final_score_100
        /\ report.final_score_100 <= report.content_score_100
        /\ report.content_score_100 <= 100 * Point

\* C28, what the code does: the scores are ordered and not negative, and
\* content_score_100 is bounded by the budgets of the segments, each
\* counted as often as its section occurs: by 100 only when that sum is.
C28_ScoresWithinSumOfBudgets ==
    req = "done" =>
        /\ 0 <= report.final_score_100
        /\ report.final_score_100 <= report.content_score_100
        /\ report.content_score_100 * total_max_score
              <= SumSeq(Budgets) * Point * 100
        /\ SumSeq(Budgets) <= total_max_score
              => report.content_score_100 <= 100 * Point

\* C28 witness: six Work Experience segments with a full prediction each
\* give content_score_100 = 120.
C28_Witness ==
    /\ req = "done"
    /\ Len(segments) = 6
    /\ \A i \in 1..6 : segments[i].section = "Work Experience"
    /\ report.content_score_100 = 120 * Point
    /\ report.final_score_100 = 120 * Point

-----------------------------------------------------------------------------
(* Rate limiting *)

\* The requests of client c admitted with a timestamp in [start, start +
\* RATE_WINDOW).
AdmittedIn(c, start) ==
    Len(SelectSeq(limiter.admitted[c],
                  LAMBDA t : start <= t /\ t < start + RATE_WINDOW))

\* C30: every client has at most RATE_LIMIT admitted requests with
\* timestamps inside any window of RATE_WINDOW seconds; a request is rejected
\* with 429 exactly when the client's history, once the entries older than
\* the window are dropped, already holds RATE_LIMIT entries; a rejected
\* request is not recorded; a request of one client leaves the histories of
\* the other clients as they were.
C30_RateLimitPerClientWindow ==
    LET last == limiter.last
        cleaned == CleanOld(last.before[last.client], last.now)
    IN  /\ \A c \in Clients :
              \A t \in LimiterTimes :
                  /\ AdmittedIn(c, t) <= RATE_LIMIT
                  /\ AdmittedIn(c, t - RATE_WINDOW + 1) <= RATE_LIMIT
        /\ last.client # "" =>
              /\ Len(cleaned) <= RATE_LIMIT
              /\ last.status_code = 429 <=> Len(cleaned) = RATE_LIMIT
              /\ last.status_code \in {0, 429}
              /\ last.status_code = 429 =>
                    limiter.request_history[last.client] = cleaned
              /\ last.status_code = 0 =>
                    limiter.request_history[last.client] = Append(cleaned, last.now)
              /\ \A c \in Clients \ {last.client} :
                    limiter.request_history[c] = last.before[c]

\* C30 witness: the first client had RATE_LIMIT requests admitted at time 0,
\* RATE_LIMIT more once the window was over, and its next request was
\* rejected, while the other client had a request admitted.
C30_Witness ==
    /\ now = RATE_WINDOW
    /\ Len(limiter.admitted["10.0.0.1"]) = 2 * RATE_LIMIT
    /\ Len(limiter.request_history["10.0.0.1"]) = RATE_LIMIT
    /\ limiter.last.client = "10.0.0.1"
    /\ limiter.last.status_code = 429
    /\ Len(limiter.request_history["10.0.0.2"]) = 1

=============================================================================
